---- MODULE Spec2Model ----
(***************************************************************************)
(* A model of astromodels/functions/functions.py and functions_2D.py: one  *)
(* Function instance (its class is chosen at construction), the parameter  *)
(* values and units it owns, its axis units, and the operations a caller   *)
(* can perform on it: changing a parameter value, set_units, evaluate, and *)
(* the class-specific setters (load_file, set_particle_distribution).      *)
(*                                                                         *)
(* Numbers are exact rationals <<n, d>> (d > 0).  A kernel result is       *)
(* <<n, d, en, ed>>, the value (n/d) * exp(en/ed), so that the exponential *)
(* cutoffs are represented exactly.  Units are modelled by their physical  *)
(* dimension <<tag, energy, time, length, angle, field>>; scale factors    *)
(* between units of one dimension (keV, GeV) are not represented.          *)
(***************************************************************************)
EXTENDS Integers, Sequences, FiniteSets, TLC

VARIABLES missing, loaded, has, warned,
          cls, val, widened, punit, axes, unitsSet, particle, tmpl, focal, res

\* the state of the module: the packages that cannot be imported, whether the
\* module body has run, the has_* flags it set and the warnings it emitted
modvars == <<missing, loaded, has, warned>>

vars == <<modvars, cls, val, widened, punit, axes, unitsSet, particle, tmpl, focal, res>>

(***************************************************************************)
(* Bounds of the model.                                                    *)
(***************************************************************************)
\* longest sample array x (and y) handed to evaluate
MaxLen == 2

(***************************************************************************)
(* Exact rational arithmetic.                                              *)
(***************************************************************************)
R(n, d) == <<n, d>>
I(n) == <<n, 1>>

Abs(n) == IF n < 0 THEN -n ELSE n

RECURSIVE Gcd(_, _)
Gcd(a, b) == IF b = 0 THEN a ELSE Gcd(b, a % b)

\* n/d in lowest terms with a positive denominator (d # 0)
RNorm(n, d) ==
    LET g == Gcd(Abs(n), Abs(d))
        s == IF d < 0 THEN -1 ELSE 1
    IN  <<(s * n) \div g, (s * d) \div g>>

RAdd(a, b) == RNorm(a[1] * b[2] + b[1] * a[2], a[2] * b[2])
RSub(a, b) == RNorm(a[1] * b[2] - b[1] * a[2], a[2] * b[2])
RMul(a, b) ==
    LET g1 == Gcd(Abs(a[1]), b[2])
        g2 == Gcd(Abs(b[1]), a[2])
    IN  RNorm((a[1] \div g1) * (b[1] \div g2), (a[2] \div g2) * (b[2] \div g1))
RNeg(a) == <<-a[1], a[2]>>
RInv(a) == RNorm(a[2], a[1])
RDiv(a, b) == RMul(a, RInv(b))
RLt(a, b) == a[1] * b[2] < b[1] * a[2]
RLe(a, b) == a[1] * b[2] <= b[1] * a[2]
RIsInt(a) == a[2] = 1
RIsZero(a) == a[1] = 0

RECURSIVE RPowNat(_, _)
RPowNat(a, k) == IF k = 0 THEN I(1) ELSE RMul(a, RPowNat(a, k - 1))

\* a ** k for an integer k; numpy gives 0 ** 0 = 1
RPow(a, k) == IF k >= 0 THEN RPowNat(a, k) ELSE RPowNat(RInv(a), -k)

\* the integer a rational is truncated to by ndarray.astype(int) (towards zero)
RTrunc(a) == IF a[1] >= 0 THEN a[1] \div a[2] ELSE -((-a[1]) \div a[2])

(***************************************************************************)
(* Kernel results: <<n, d, en, ed>> is (n/d) * exp(en/ed).                 *)
(***************************************************************************)
V(coef, earg) == IF coef[1] = 0 THEN <<0, 1, 0, 1>>
                 ELSE <<coef[1], coef[2], earg[1], earg[2]>>
VZero == <<0, 1, 0, 1>>

(***************************************************************************)
(* Declared bounds are decimal literals m * 10^e, or absent.               *)
(***************************************************************************)
NoBound == <<FALSE, 0, 0>>
B(m, e) == <<TRUE, m, e>>

RECURSIVE Pow10(_)
Pow10(k) == IF k = 0 THEN 1 ELSE 10 * Pow10(k - 1)

\* a >= m * 10^e.  Below 10^-9 the literal is positive and smaller than any
\* positive rational the model represents.
GeDec(a, b) ==
    IF b[3] >= 0 THEN a[1] >= b[2] * Pow10(b[3]) * a[2]
    ELSE IF b[3] >= -9 THEN a[1] * Pow10(-b[3]) >= b[2] * a[2]
    ELSE a[1] >= 1
LeDec(a, b) ==
    IF b[3] >= 0 THEN a[1] <= b[2] * Pow10(b[3]) * a[2]
    ELSE IF b[3] >= -9 THEN a[1] * Pow10(-b[3]) <= b[2] * a[2]
    ELSE a[1] <= 0

(***************************************************************************)
(* Units by physical dimension.                                            *)
(***************************************************************************)
None == <<"none", 0, 0, 0, 0, 0>>
NotAUnit == <<"notunit", 0, 0, 0, 0, 0>>
U(e, t, l, a, g) == <<"unit", e, t, l, a, g>>
dimensionless_unscaled == U(0, 0, 0, 0, 0)
keV == U(1, 0, 0, 0, 0)
GeV == U(1, 0, 0, 0, 0)
second == U(0, 1, 0, 0, 0)
cm2 == U(0, 0, 2, 0, 0)
kpc == U(0, 0, 1, 0, 0)
rad == U(0, 0, 0, 1, 0)
deg == U(0, 0, 0, 1, 0)
Gauss == U(0, 0, 0, 0, 1)

IsUnit(u) == u[1] = "unit"
UMul(u, v) == U(u[2] + v[2], u[3] + v[3], u[4] + v[4], u[5] + v[5], u[6] + v[6])
UDiv(u, v) == U(u[2] - v[2], u[3] - v[3], u[4] - v[4], u[5] - v[5], u[6] - v[6])
UInv(u) == UDiv(dimensionless_unscaled, u)
UPow(u, k) == U(k * u[2], k * u[3], k * u[4], k * u[5], k * u[6])

\* astropy's physical_type, for the two kinds the hooks ask about
physical_type(u) ==
    IF u = keV THEN "energy"
    ELSE IF u = dimensionless_unscaled THEN "dimensionless"
    ELSE "other"

\* hasattr(u, "physical_type")
has_physical_type(u) == IsUnit(u)

(***************************************************************************)
(* The declared parameters (the metadata in each class docstring), in      *)
(* declaration order: name, initial value, min, max and fixed unit.        *)
(***************************************************************************)
P(name, init, min, max, unit) ==
    [name |-> name, init |-> init, min |-> min, max |-> max, unit |-> unit]
\* a parameter with no bounds and no unit in the metadata
P0(name, init) == P(name, init, NoBound, NoBound, None)

Powerlaw_lognorm_parameters ==
    << P0("K", I(1)), P0("piv", I(1)), P("index", I(-2), B(-10, 0), B(10, 0), None) >>

Powerlaw_parameters ==
    << P("K", I(1), B(1, -30), B(1, 3), None), P0("piv", I(1)),
       P("index", I(-2), B(-10, 0), B(10, 0), None) >>

Powerlaw_flux_parameters ==
    << P("F", I(1), B(1, -30), B(1, 3), None),
       P("index", I(-2), B(-10, 0), B(10, 0), None),
       P0("a", I(1)), P0("b", I(100)), P0("piv", I(1)) >>

Cutoff_powerlaw_parameters ==
    << P("K", I(1), B(1, -30), B(1, 3), None), P0("piv", I(1)),
       P("index", I(-2), B(-10, 0), B(10, 0), None), P0("xc", I(10)) >>

Inverse_cutoff_powerlaw_parameters ==
    << P("K", I(1), B(1, -30), B(1, 3), None), P0("piv", I(1)),
       P("index", I(-2), B(-10, 0), B(10, 0), None), P0("b", I(1)) >>

Super_cutoff_powerlaw_parameters ==
    << P0("K", I(1)), P0("piv", I(1)),
       P("index", I(-2), B(-10, 0), B(10, 0), None),
       P("xc", I(10), B(1, 0), NoBound, None),
       P("gamma", I(1), B(1, -1), B(10, 0), None) >>

SmoothlyBrokenPowerLaw_parameters ==
    << P("K", I(1), B(0, 0), NoBound, None),
       P("alpha", I(-1), B(-15, -1), B(2, 0), None),
       P("break_energy", I(300), B(10, 0), NoBound, None),
       P("break_scale", R(1, 2), B(0, 0), B(10, 0), None),
       P("beta", I(-2), B(-5, 0), B(-16, -1), None),
       P0("pivot", I(100)) >>

Broken_powerlaw_parameters ==
    << P0("K", I(1)), P("xb", I(10), B(1, 0), NoBound, None),
       P("alpha", R(-3, 2), B(-10, 0), B(10, 0), None),
       P("beta", R(-5, 2), B(-10, 0), B(10, 0), None),
       P0("piv", I(1)) >>

StepFunction_parameters ==
    << P0("lower_bound", I(0)), P0("upper_bound", I(1)), P0("value", I(1)) >>

StepFunctionUpper_parameters ==
    << P0("lower_bound", I(0)), P0("upper_bound", I(1)), P0("value", I(1)) >>

Blackbody_parameters ==
    << P("K", R(1, 10000), B(0, 0), NoBound, None),
       P("kT", I(30), B(0, 0), NoBound, None) >>

\* 1/(2 pi) and pi are written to six decimals
Sin_parameters ==
    << P0("K", I(1)), P("f", R(159155, 1000000), B(0, 0), NoBound, None),
       P("phi", I(0), B(-3141593, -6), B(3141593, -6), rad) >>

Line_parameters == << P0("a", I(1)), P0("b", I(0)) >>

Constant_parameters == << P0("k", I(0)) >>

DiracDelta_parameters == << P0("value", I(0)), P0("zero_point", I(0)) >>

Synchrotron_parameters ==
    << P("B", R(81, 25000000), NoBound, NoBound, Gauss),
       P("distance", I(1), NoBound, NoBound, kpc),
       P("emin", I(1), NoBound, NoBound, GeV),
       P("emax", I(510000), NoBound, NoBound, GeV),
       P("need", I(10), B(2, 0), B(100, 0), None) >>

ComplexTestFunction_parameters ==
    << P("A", R(81, 25000000), B(1, -6), B(1, -5), None),
       P("B", I(-10), B(-100, 0), B(100, 0), None) >>

\* the parameters of Band with the lower bound of alpha at -3.5
Band_parameters_low_alpha ==
    << P0("K", R(1, 10000)), P("alpha", I(-1), B(-35, -1), B(3, 0), None),
       P("xp", I(500), B(10, 0), NoBound, None),
       P("beta", I(-2), B(-5, 0), B(-16, -1), None), P0("piv", I(100)) >>

Band_parameters ==
    << P0("K", R(1, 10000)), P("alpha", I(-1), B(-15, -1), B(3, 0), None),
       P("xp", I(500), B(10, 0), NoBound, None),
       P("beta", I(-2), B(-5, 0), B(-16, -1), None), P0("piv", I(100)) >>

Band_grbm_parameters ==
    << P0("K", R(1, 10000)), P("alpha", I(-1), B(-15, -1), B(3, 0), None),
       P("xc", I(500), B(10, 0), NoBound, None),
       P("beta", I(-2), B(-5, 0), B(-16, -1), None), P0("piv", I(100)) >>

Band_Calderone_parameters ==
    << P("alpha", I(-1), B(-10, 0), B(10, 0), None),
       P("beta", R(-11, 5), B(-7, 0), B(-1, 0), None),
       P("xp", I(200), B(0, 0), NoBound, None),
       P0("F", R(1, 1000000)),
       P("a", I(1), B(0, 0), NoBound, None),
       P("b", I(10000), B(0, 0), NoBound, None),
       P("opt", I(1), B(0, 0), B(1, 0), None) >>

Log_parabola_parameters ==
    << P("K", I(1), B(1, -30), B(1, 5), None), P0("piv", I(1)),
       P0("alpha", I(-2)), P0("beta", I(1)) >>

Cutoff_powerlaw_flux_parameters ==
    << P0("F", R(1, 100000)), P0("index", I(-2)), P0("xc", I(50)),
       P0("a", I(1)), P0("b", I(100)) >>

Exponential_cutoff_parameters ==
    << P0("K", I(1)), P("xc", I(100), B(1, 0), NoBound, None) >>

EBLattenuation_parameters == << P0("redshift", I(1)) >>

Latitude_galactic_diffuse_parameters == << P0("K", I(1)), P0("sigma_b", I(1)) >>

Gaussian_on_sphere_parameters ==
    << P("lon0", I(0), B(0, 0), B(360, 0), None),
       P("lat0", I(0), B(-90, 0), B(90, 0), None),
       P("sigma", R(1, 2), B(0, 0), B(20, 0), None) >>

Disk_on_sphere_parameters ==
    << P("lon0", I(0), B(0, 0), B(360, 0), None),
       P("lat0", I(0), B(-90, 0), B(90, 0), None),
       P("radius", R(1, 2), B(0, 0), B(20, 0), None) >>

Ellipse_on_sphere_parameters ==
    << P("lon0", I(0), B(0, 0), B(360, 0), None),
       P("lat0", I(0), B(-90, 0), B(90, 0), None),
       P("a", R(1, 2), B(0, 0), B(20, 0), None),
       P("e", R(1, 2), B(0, 0), B(1, 0), None),
       P("theta", I(0), B(-90, 0), B(90, 0), None) >>

SpatialTemplate_2D_parameters == << P0("K", I(1)) >>

Power_law_on_sphere_parameters ==
    << P("lon0", I(0), B(0, 0), B(360, 0), None),
       P("lat0", I(0), B(-90, 0), B(90, 0), None),
       P("index", I(-2), B(-5, 0), B(-1, 0), None),
       P0("maxr", I(5)) >>

Classes1D ==
    { "Powerlaw_lognorm", "Powerlaw", "Powerlaw_flux", "Cutoff_powerlaw",
      "Inverse_cutoff_powerlaw", "Super_cutoff_powerlaw", "SmoothlyBrokenPowerLaw",
      "Broken_powerlaw", "StepFunction", "StepFunctionUpper", "Blackbody", "Sin",
      "Line", "Constant", "DiracDelta", "Synchrotron", "_ComplexTestFunction",
      "Band", "Band_grbm", "Band_Calderone", "Log_parabola",
      "Cutoff_powerlaw_flux", "Exponential_cutoff", "EBLattenuation" }

Classes2D ==
    { "Latitude_galactic_diffuse", "Gaussian_on_sphere", "Disk_on_sphere",
      "Ellipse_on_sphere", "SpatialTemplate_2D", "Power_law_on_sphere" }

Classes == Classes1D \cup Classes2D

\* the parameters FunctionMeta builds for a class from its docstring
Parameters(c) ==
    CASE c = "Powerlaw_lognorm" -> Powerlaw_lognorm_parameters
      [] c = "Powerlaw" -> Powerlaw_parameters
      [] c = "Powerlaw_flux" -> Powerlaw_flux_parameters
      [] c = "Cutoff_powerlaw" -> Cutoff_powerlaw_parameters
      [] c = "Inverse_cutoff_powerlaw" -> Inverse_cutoff_powerlaw_parameters
      [] c = "Super_cutoff_powerlaw" -> Super_cutoff_powerlaw_parameters
      [] c = "SmoothlyBrokenPowerLaw" -> SmoothlyBrokenPowerLaw_parameters
      [] c = "Broken_powerlaw" -> Broken_powerlaw_parameters
      [] c = "StepFunction" -> StepFunction_parameters
      [] c = "StepFunctionUpper" -> StepFunctionUpper_parameters
      [] c = "Blackbody" -> Blackbody_parameters
      [] c = "Sin" -> Sin_parameters
      [] c = "Line" -> Line_parameters
      [] c = "Constant" -> Constant_parameters
      [] c = "DiracDelta" -> DiracDelta_parameters
      [] c = "Synchrotron" -> Synchrotron_parameters
      [] c = "_ComplexTestFunction" -> ComplexTestFunction_parameters
      [] c = "Band" -> Band_parameters
      [] c = "Band_grbm" -> Band_grbm_parameters
      [] c = "Band_Calderone" -> Band_Calderone_parameters
      [] c = "Log_parabola" -> Log_parabola_parameters
      [] c = "Cutoff_powerlaw_flux" -> Cutoff_powerlaw_flux_parameters
      [] c = "Exponential_cutoff" -> Exponential_cutoff_parameters
      [] c = "EBLattenuation" -> EBLattenuation_parameters
      [] c = "Latitude_galactic_diffuse" -> Latitude_galactic_diffuse_parameters
      [] c = "Gaussian_on_sphere" -> Gaussian_on_sphere_parameters
      [] c = "Disk_on_sphere" -> Disk_on_sphere_parameters
      [] c = "Ellipse_on_sphere" -> Ellipse_on_sphere_parameters
      [] c = "SpatialTemplate_2D" -> SpatialTemplate_2D_parameters
      [] c = "Power_law_on_sphere" -> Power_law_on_sphere_parameters

ParamNames(c) == { Parameters(c)[i].name : i \in 1..Len(Parameters(c)) }
Param(c, p) == CHOOSE d \in { Parameters(c)[i] : i \in 1..Len(Parameters(c)) } : d.name = p

\* min <= v <= max for the bounds the metadata declares
InDeclaredBounds(c, p, v) ==
    /\ Param(c, p).min[1] => GeDec(v, Param(c, p).min)
    /\ Param(c, p).max[1] => LeDec(v, Param(c, p).max)

(***************************************************************************)
(* Unit propagation.  set_units stores the axis units and calls the class  *)
(* hook _set_units; a hook answers with the units it assigned (assign) and *)
(* the exception it raised, if any, with the axis its message names.       *)
(***************************************************************************)
HookOk(assign) == [exc |-> "", axis |-> "", assign |-> assign]
HookRaise(exc, axis, assign) == [exc |-> exc, axis |-> axis, assign |-> assign]

\* astromodels.core.units.get_units(): the default unit system
current_units_energy == keV
current_units_time == second
current_units_area == cm2

Powerlaw_lognorm_set_units(x_unit, y_unit) ==
    HookOk(("index" :> dimensionless_unscaled) @@ ("piv" :> x_unit) @@ ("K" :> y_unit))

Powerlaw_set_units(x_unit, y_unit) ==
    HookOk(("index" :> dimensionless_unscaled) @@ ("piv" :> x_unit) @@ ("K" :> y_unit))

Powerlaw_flux_set_units(x_unit, y_unit) ==
    HookOk(("F" :> UMul(y_unit, x_unit)) @@ ("index" :> dimensionless_unscaled)
           @@ ("piv" :> y_unit) @@ ("a" :> x_unit) @@ ("b" :> x_unit))

Cutoff_powerlaw_set_units(x_unit, y_unit) ==
    HookOk(("index" :> dimensionless_unscaled) @@ ("piv" :> x_unit)
           @@ ("xc" :> x_unit) @@ ("K" :> y_unit))

Inverse_cutoff_powerlaw_set_units(x_unit, y_unit) ==
    HookOk(("index" :> dimensionless_unscaled) @@ ("piv" :> x_unit)
           @@ ("b" :> UInv(x_unit)) @@ ("K" :> y_unit))

Super_cutoff_powerlaw_set_units(x_unit, y_unit) ==
    HookOk(("index" :> dimensionless_unscaled) @@ ("gamma" :> dimensionless_unscaled)
           @@ ("piv" :> x_unit) @@ ("xc" :> x_unit) @@ ("K" :> y_unit))

SmoothlyBrokenPowerLaw_set_units(x_unit, y_unit) ==
    HookOk(("K" :> y_unit) @@ ("break_energy" :> x_unit) @@ ("pivot" :> x_unit)
           @@ ("alpha" :> dimensionless_unscaled) @@ ("beta" :> dimensionless_unscaled)
           @@ ("break_scale" :> dimensionless_unscaled))

Broken_powerlaw_set_units(x_unit, y_unit) ==
    HookOk(("K" :> y_unit) @@ ("xb" :> x_unit) @@ ("alpha" :> dimensionless_unscaled)
           @@ ("beta" :> dimensionless_unscaled) @@ ("piv" :> x_unit))

StepFunction_set_units(x_unit, y_unit) ==
    HookOk(("lower_bound" :> x_unit) @@ ("upper_bound" :> x_unit) @@ ("value" :> y_unit))

StepFunctionUpper_set_units(x_unit, y_unit) ==
    HookOk(("lower_bound" :> x_unit) @@ ("upper_bound" :> x_unit) @@ ("value" :> y_unit))

Blackbody_set_units(x_unit, y_unit) ==
    HookOk(("K" :> UDiv(y_unit, UPow(x_unit, 2))) @@ ("kT" :> x_unit))

Sin_set_units(x_unit, y_unit) ==
    HookOk(("K" :> y_unit) @@ ("f" :> UMul(UPow(x_unit, -1), rad)) @@ ("phi" :> rad))

Line_set_units(x_unit, y_unit) ==
    HookOk(("a" :> UDiv(y_unit, x_unit)) @@ ("b" :> y_unit))

Constant_set_units(x_unit, y_unit) == HookOk("k" :> y_unit)

DiracDelta_set_units(x_unit, y_unit) ==
    HookOk(("value" :> y_unit) @@ ("zero_point" :> x_unit))

\* x must be an energy and y a differential flux; nothing is assigned
Synchrotron_set_units(x_unit, y_unit) ==
    IF has_physical_type(x_unit) /\ physical_type(x_unit) = "energy"
    THEN LET should_be_unitless ==
                 UMul(y_unit, UMul(UMul(current_units_energy, current_units_time),
                                   current_units_area))
         IN  IF ~has_physical_type(should_be_unitless)
                  \/ physical_type(should_be_unitless) # "dimensionless"
             THEN HookRaise("InvalidUsageForFunction", "y", <<>>)
             ELSE HookOk(<<>>)
    ELSE HookRaise("InvalidUsageForFunction", "x", <<>>)

ComplexTestFunction_set_units(x_unit, y_unit) ==
    HookOk(("A" :> y_unit) @@ ("B" :> UDiv(y_unit, x_unit)))

Band_set_units(x_unit, y_unit) ==
    HookOk(("K" :> y_unit) @@ ("xp" :> x_unit) @@ ("piv" :> x_unit)
           @@ ("alpha" :> dimensionless_unscaled) @@ ("beta" :> dimensionless_unscaled))

Band_grbm_set_units(x_unit, y_unit) ==
    HookOk(("K" :> y_unit) @@ ("xc" :> x_unit) @@ ("piv" :> x_unit)
           @@ ("alpha" :> dimensionless_unscaled) @@ ("beta" :> dimensionless_unscaled))

Band_Calderone_set_units(x_unit, y_unit) ==
    HookOk(("alpha" :> dimensionless_unscaled) @@ ("beta" :> dimensionless_unscaled)
           @@ ("xp" :> x_unit) @@ ("F" :> UMul(y_unit, x_unit))
           @@ ("a" :> x_unit) @@ ("b" :> x_unit) @@ ("opt" :> dimensionless_unscaled))

Log_parabola_set_units(x_unit, y_unit) ==
    HookOk(("K" :> y_unit) @@ ("piv" :> x_unit)
           @@ ("alpha" :> dimensionless_unscaled) @@ ("beta" :> dimensionless_unscaled))

Cutoff_powerlaw_flux_set_units(x_unit, y_unit) ==
    HookOk(("F" :> UMul(y_unit, x_unit)) @@ ("index" :> dimensionless_unscaled)
           @@ ("xc" :> x_unit) @@ ("a" :> x_unit) @@ ("b" :> x_unit))

Exponential_cutoff_set_units(x_unit, y_unit) ==
    HookOk(("K" :> y_unit) @@ ("xc" :> x_unit))

\* the hook of EBLattenuation with the two validations in the other order
EBLattenuation_set_units_y_first(x_unit, y_unit) ==
    IF ~has_physical_type(y_unit) \/ physical_type(y_unit) # "dimensionless"
    THEN HookRaise("InvalidUsageForFunction", "y", <<>>)
    ELSE IF ~has_physical_type(x_unit) \/ physical_type(x_unit) # "energy"
    THEN HookRaise("InvalidUsageForFunction", "x", <<>>)
    ELSE HookOk("redshift" :> dimensionless_unscaled)

\* x must be an energy, then y dimensionless, and only then redshift gets its unit
EBLattenuation_set_units(x_unit, y_unit) ==
    IF ~has_physical_type(x_unit) \/ physical_type(x_unit) # "energy"
    THEN HookRaise("InvalidUsageForFunction", "x", <<>>)
    ELSE IF ~has_physical_type(y_unit) \/ physical_type(y_unit) # "dimensionless"
    THEN HookRaise("InvalidUsageForFunction", "y", <<>>)
    ELSE HookOk("redshift" :> dimensionless_unscaled)

Latitude_galactic_diffuse_set_units(x_unit, y_unit, z_unit) ==
    HookOk(("K" :> z_unit) @@ ("sigma_b" :> x_unit))

Gaussian_on_sphere_set_units(x_unit, y_unit, z_unit) ==
    HookOk(("lon0" :> x_unit) @@ ("lat0" :> y_unit) @@ ("sigma" :> x_unit))

Disk_on_sphere_set_units(x_unit, y_unit, z_unit) ==
    HookOk(("lon0" :> x_unit) @@ ("lat0" :> y_unit) @@ ("radius" :> x_unit))

Ellipse_on_sphere_set_units(x_unit, y_unit, z_unit) ==
    HookOk(("lon0" :> x_unit) @@ ("lat0" :> y_unit) @@ ("a" :> x_unit)
           @@ ("e" :> dimensionless_unscaled) @@ ("theta" :> x_unit))

SpatialTemplate_2D_set_units(x_unit, y_unit, z_unit) == HookOk("K" :> z_unit)

Power_law_on_sphere_set_units(x_unit, y_unit, z_unit) ==
    HookOk(("lon0" :> x_unit) @@ ("lat0" :> y_unit)
           @@ ("index" :> dimensionless_unscaled) @@ ("maxr" :> x_unit))

\* the hook of class c
Hook(c, x_unit, y_unit, z_unit) ==
    CASE c = "Powerlaw_lognorm" -> Powerlaw_lognorm_set_units(x_unit, y_unit)
      [] c = "Powerlaw" -> Powerlaw_set_units(x_unit, y_unit)
      [] c = "Powerlaw_flux" -> Powerlaw_flux_set_units(x_unit, y_unit)
      [] c = "Cutoff_powerlaw" -> Cutoff_powerlaw_set_units(x_unit, y_unit)
      [] c = "Inverse_cutoff_powerlaw" -> Inverse_cutoff_powerlaw_set_units(x_unit, y_unit)
      [] c = "Super_cutoff_powerlaw" -> Super_cutoff_powerlaw_set_units(x_unit, y_unit)
      [] c = "SmoothlyBrokenPowerLaw" -> SmoothlyBrokenPowerLaw_set_units(x_unit, y_unit)
      [] c = "Broken_powerlaw" -> Broken_powerlaw_set_units(x_unit, y_unit)
      [] c = "StepFunction" -> StepFunction_set_units(x_unit, y_unit)
      [] c = "StepFunctionUpper" -> StepFunctionUpper_set_units(x_unit, y_unit)
      [] c = "Blackbody" -> Blackbody_set_units(x_unit, y_unit)
      [] c = "Sin" -> Sin_set_units(x_unit, y_unit)
      [] c = "Line" -> Line_set_units(x_unit, y_unit)
      [] c = "Constant" -> Constant_set_units(x_unit, y_unit)
      [] c = "DiracDelta" -> DiracDelta_set_units(x_unit, y_unit)
      [] c = "Synchrotron" -> Synchrotron_set_units(x_unit, y_unit)
      [] c = "_ComplexTestFunction" -> ComplexTestFunction_set_units(x_unit, y_unit)
      [] c = "Band" -> Band_set_units(x_unit, y_unit)
      [] c = "Band_grbm" -> Band_grbm_set_units(x_unit, y_unit)
      [] c = "Band_Calderone" -> Band_Calderone_set_units(x_unit, y_unit)
      [] c = "Log_parabola" -> Log_parabola_set_units(x_unit, y_unit)
      [] c = "Cutoff_powerlaw_flux" -> Cutoff_powerlaw_flux_set_units(x_unit, y_unit)
      [] c = "Exponential_cutoff" -> Exponential_cutoff_set_units(x_unit, y_unit)
      [] c = "EBLattenuation" -> EBLattenuation_set_units(x_unit, y_unit)
      [] c = "Latitude_galactic_diffuse" ->
             Latitude_galactic_diffuse_set_units(x_unit, y_unit, z_unit)
      [] c = "Gaussian_on_sphere" -> Gaussian_on_sphere_set_units(x_unit, y_unit, z_unit)
      [] c = "Disk_on_sphere" -> Disk_on_sphere_set_units(x_unit, y_unit, z_unit)
      [] c = "Ellipse_on_sphere" -> Ellipse_on_sphere_set_units(x_unit, y_unit, z_unit)
      [] c = "SpatialTemplate_2D" -> SpatialTemplate_2D_set_units(x_unit, y_unit, z_unit)
      [] c = "Power_law_on_sphere" -> Power_law_on_sphere_set_units(x_unit, y_unit, z_unit)

\* hooks that test the kind of their arguments before using them
ValidatingHooks == { "Synchrotron", "EBLattenuation" }

\* a differential flux, 1 / (keV cm2 s), and a surface brightness, 1 / deg2
DiffFlux == U(-1, -1, -2, 0, 0)
PerDeg2 == U(0, 0, 0, -2, 0)

\* Axis units a caller hands to set_units.  A hook that does unit algebra on
\* its arguments is only handed units; the validating hooks also see an
\* object that is no unit (for Synchrotron only as x_unit: the product of a
\* non-unit y_unit with the unit system is astropy's business).
XUnitInputs(c) ==
    IF c \in Classes2D THEN { deg }
    ELSE { keV, second } \cup (IF c \in ValidatingHooks THEN { NotAUnit } ELSE {})
YUnitInputs(c) ==
    IF c \in Classes2D THEN { deg }
    ELSE { DiffFlux, dimensionless_unscaled }
         \cup (IF c = "EBLattenuation" THEN { NotAUnit } ELSE {})
ZUnitInputs(c) ==
    IF c \in Classes2D THEN { PerDeg2, dimensionless_unscaled } ELSE { None }

(***************************************************************************)
(* What an evaluate call does: it returns an array (the kernel call it     *)
(* made, the unit attached, the shape, and the values where the model      *)
(* computes them exactly) or it raises.  focal is the state of the         *)
(* focal-point attributes after the call.                                  *)
(***************************************************************************)
NoCall == [fn |-> "", x |-> <<>>, p |-> <<>>]
Call(fn, x, p) == [fn |-> fn, x |-> x, p |-> p]

\* values the model does not compute (irrational exponents, special functions)
Inexact == [exact |-> FALSE, v |-> <<>>]
Exact(v) == [exact |-> TRUE, v |-> v]

Returned(self, call, unit, shape, k) ==
    [outcome |-> "returned", call |-> call, unit |-> unit, shape |-> shape,
     value |-> k.v, exact |-> k.exact, focal |-> self.focal]
Raised(self, exc, unit) ==
    [outcome |-> exc, call |-> NoCall, unit |-> unit, shape |-> <<>>,
     value |-> <<>>, exact |-> FALSE, focal |-> self.focal]

Finite(a) == a[2] # 0
AllPositive(x) == \A i \in 1..Len(x) : x[i][1] > 0

\* numpy broadcasting of two 1-d arrays: equal lengths, or one of length 1
Broadcastable(x, y) == Len(x) = Len(y) \/ Len(x) = 1 \/ Len(y) = 1
BroadcastLen(x, y) == IF Len(x) >= Len(y) THEN Len(x) ELSE Len(y)

(***************************************************************************)
(* The compiled kernels of astromodels.functions.numba_functions.          *)
(***************************************************************************)
\* K (x/piv)^index
plaw_eval(x, K, index, piv) ==
    IF RIsInt(index) /\ ~RIsZero(piv) /\ AllPositive(x)
    THEN Exact([i \in 1..Len(x) |->
                 V(RMul(K, RPow(RDiv(x[i], piv), index[1])), I(0))])
    ELSE Inexact

\* K (x/piv)^index exp(-x/xc)
cplaw_eval(x, K, xc, index, piv) ==
    IF RIsInt(index) /\ ~RIsZero(piv) /\ ~RIsZero(xc) /\ AllPositive(x)
    THEN Exact([i \in 1..Len(x) |->
                 V(RMul(K, RPow(RDiv(x[i], piv), index[1])), RNeg(RDiv(x[i], xc)))])
    ELSE Inexact

\* K (x/piv)^index exp(-x b)
cplaw_index_eval(x, K, b, index, piv) ==
    IF RIsInt(index) /\ ~RIsZero(piv) /\ AllPositive(x)
    THEN Exact([i \in 1..Len(x) |->
                 V(RMul(K, RPow(RDiv(x[i], piv), index[1])), RNeg(RMul(x[i], b)))])
    ELSE Inexact

\* K (x/piv)^alpha below xb, K (xb/piv)^(alpha-beta) (x/piv)^beta from xb on
bplaw_eval(x, K, xb, alpha, beta, piv) ==
    IF RIsInt(alpha) /\ RIsInt(beta) /\ ~RIsZero(piv) /\ xb[1] > 0 /\ AllPositive(x)
    THEN Exact([i \in 1..Len(x) |->
                 IF RLt(x[i], xb)
                 THEN V(RMul(K, RPow(RDiv(x[i], piv), alpha[1])), I(0))
                 ELSE V(RMul(K, RMul(RPow(RDiv(xb, piv), alpha[1] - beta[1]),
                                     RPow(RDiv(x[i], piv), beta[1]))), I(0))])
    ELSE Inexact

\* the Band function with e-folding energy E0: K (x/piv)^alpha exp(-x/E0) below
\* (alpha-beta) E0, and the matching power law of index beta from there on
band_eval(x, K, alpha, beta, E0, piv) ==
    IF RIsInt(alpha) /\ RIsInt(beta) /\ ~RIsZero(piv) /\ Finite(E0) /\ E0[1] > 0
       /\ AllPositive(x)
    THEN LET break_point == RMul(RSub(alpha, beta), E0)
         IN  Exact([i \in 1..Len(x) |->
                 IF RLt(x[i], break_point)
                 THEN V(RMul(K, RPow(RDiv(x[i], piv), alpha[1])), RNeg(RDiv(x[i], E0)))
                 ELSE V(RMul(K, RMul(RPow(RDiv(break_point, piv), alpha[1] - beta[1]),
                                     RPow(RDiv(x[i], piv), beta[1]))),
                        RSub(beta, alpha))])
    ELSE Inexact

(***************************************************************************)
(* evaluate of the 1-D kernels.  self holds the instance attributes a      *)
(* kernel reads, x the samples, a the parameter arguments by name, mode    *)
(* whether x and the arguments are astropy quantities ("units") or plain   *)
(* numbers ("plain").  In "units" mode the numbers are the magnitudes.     *)
(***************************************************************************)
\* the unit a quantity result carries; a plain result carries none
QUnit(mode, u) == IF mode = "units" THEN u ELSE None

Powerlaw_lognorm_evaluate(self, x, a, mode) ==
    Returned(self, NoCall, QUnit(mode, self.punit["K"]), <<Len(x)>>,
             IF RIsInt(a["index"]) /\ AllPositive(x)
             THEN Exact([i \in 1..Len(x) |->
                     V(RMul(a["K"], RPow(RDiv(x[i], a["piv"]), a["index"][1])), I(0))])
             ELSE Inexact)

\* Powerlaw.evaluate handing index and piv to the kernel in each other's place
Powerlaw_evaluate_swapped(self, x, a, mode) ==
    Returned(self, Call("plaw_eval", x, <<a["K"], a["piv"], a["index"]>>),
             IF mode = "units" THEN self.y_unit ELSE None, <<Len(x)>>,
             plaw_eval(x, a["K"], a["piv"], a["index"]))

Powerlaw_evaluate(self, x, a, mode) ==
    LET index_ == a["index"]
        K_ == a["K"]
        piv_ == a["piv"]
        x_ == x
        unit_ == IF mode = "units" THEN self.y_unit ELSE None
    IN  Returned(self, Call("plaw_eval", x_, <<K_, index_, piv_>>), unit_, <<Len(x_)>>,
                 plaw_eval(x_, K_, index_, piv_))

\* The return expression names apiv, which is bound nowhere; (b/piv) ** gp1,
\* evaluated before it, succeeds for the positive b and piv of the model.
Powerlaw_flux_evaluate(self, x, a, mode) ==
    LET unit_ == IF mode = "units" THEN UMul(self.y_unit, self.x_unit) ELSE None
    IN  Raised(self, "NameError", unit_)

\* the plain branch reads xc_ on the right of the assignment that binds it
Cutoff_powerlaw_evaluate(self, x, a, mode) ==
    IF mode = "units"
    THEN LET index_ == a["index"]
             K_ == a["K"]
             piv_ == a["piv"]
             xc_ == a["xc"]
             x_ == x
             unit_ == self.y_unit
         IN  Returned(self, Call("cplaw_eval", x_, <<K_, xc_, index_, piv_>>), unit_,
                      <<Len(x_)>>, cplaw_eval(x_, K_, xc_, index_, piv_))
    ELSE Raised(self, "UnboundLocalError", None)

\* the same slip with b_
Inverse_cutoff_powerlaw_evaluate(self, x, a, mode) ==
    IF mode = "units"
    THEN LET index_ == a["index"]
             K_ == a["K"]
             piv_ == a["piv"]
             b_ == a["b"]
             x_ == x
             unit_ == self.y_unit
         IN  Returned(self, Call("cplaw_index_eval", x_, <<K_, b_, index_, piv_>>), unit_,
                      <<Len(x_)>>, cplaw_index_eval(x_, K_, b_, index_, piv_))
    ELSE Raised(self, "UnboundLocalError", None)

\* K (x/piv)^index exp(-(x/xc)^gamma)
Super_cutoff_powerlaw_evaluate(self, x, a, mode) ==
    Returned(self, NoCall, QUnit(mode, self.punit["K"]), <<Len(x)>>,
             IF RIsInt(a["index"]) /\ RIsInt(a["gamma"]) /\ a["gamma"][1] >= 0
                /\ AllPositive(x)
             THEN Exact([i \in 1..Len(x) |->
                     V(RMul(a["K"], RPow(RDiv(x[i], a["piv"]), a["index"][1])),
                       RNeg(RPow(RDiv(x[i], a["xc"]), a["gamma"][1])))])
             ELSE Inexact)

\* no test of alpha against beta; the log-cosh arithmetic is not computed here
\* np.log10 at the ratios the bounded samples produce: exact at the powers of
\* ten, to six decimals at 1/3
log10(r) ==
    CASE r = R(1, 10000) -> I(-4)
      [] r = I(1) -> I(0)
      [] r = I(100) -> I(2)
      [] r = I(1000) -> I(3)
      [] r = R(1, 3) -> R(-477121, 1000000)

\* Exponents of ten are kept in units of 10^-7.  np.log(2.0) in that unit:
Log2E7 == 6931472

\* np.log((np.exp(arg) + np.exp(-arg)) / 2.0) in units of 10^-7, at the
\* arguments the bounded samples produce
LogCoshE7(arg) ==
    CASE arg = I(0) -> I(0)
      [] arg = I(4) -> I(33071882)
      [] arg = I(-6) -> I(53068590)
      [] arg = R(-477121, 500000) -> I(3993818)

\* M * break_scale * (-arg - np.log(2.0))
pcosh_below(M, break_scale, arg) ==
    RMul(RMul(M, break_scale), RSub(RMul(I(10000000), RNeg(arg)), I(Log2E7)))
\* M * break_scale * (arg - np.log(2.0))
pcosh_above(M, break_scale, arg) ==
    RMul(RMul(M, break_scale), RSub(RMul(I(10000000), arg), I(Log2E7)))
\* M * break_scale * log cosh(arg)
pcosh_exact(M, break_scale, arg) == RMul(RMul(M, break_scale), LogCoshE7(arg))

\* idx1 = arg < -6.0 with the threshold moved into the mask
sbpl_mask_closed(arg) ==
    IF RLe(arg, I(-6)) THEN "idx1" ELSE IF RLe(I(4), arg) THEN "idx2" ELSE "idx3"

\* idx1 = arg < -6.0, idx2 = arg > 4.0, idx3 = ~(idx1 | idx2)
sbpl_mask(arg) ==
    IF RLt(arg, I(-6)) THEN "idx1" ELSE IF RLt(I(4), arg) THEN "idx2" ELSE "idx3"

\* the if / elif / else on arg_piv
sbpl_piv_case(arg_piv) ==
    IF RLt(arg_piv, I(-6)) THEN "idx1" ELSE IF RLt(I(4), arg_piv) THEN "idx2" ELSE "idx3"

\* the formula each mask writes into pcosh
sbpl_pcosh(mask, M, break_scale, arg) ==
    CASE mask = "idx1" -> pcosh_below(M, break_scale, arg)
      [] mask = "idx2" -> pcosh_above(M, break_scale, arg)
      [] mask = "idx3" -> pcosh_exact(M, break_scale, arg)

\* K (x/pivot)^B 10^(pcosh - pcosh_piv) is left symbolic: each sample is
\* returned as the mask that wrote it, its arg and the two exponents
SmoothlyBrokenPowerLaw_evaluate(self, x, a, mode) ==
    LET M == RDiv(RSub(a["beta"], a["alpha"]), I(2))
        break_scale == a["break_scale"]
        arg_piv == RDiv(log10(RDiv(a["pivot"], a["break_energy"])), break_scale)
        pcosh_piv == sbpl_pcosh(sbpl_piv_case(arg_piv), M, break_scale, arg_piv)
        arg == [i \in 1..Len(x) |->
                  RDiv(log10(RDiv(x[i], a["break_energy"])), break_scale)]
    IN  Returned(self, NoCall, QUnit(mode, self.punit["K"]), <<Len(x)>>,
                 [exact |-> FALSE,
                  v |-> [i \in 1..Len(x) |->
                           [mask |-> sbpl_mask(arg[i]), arg |-> arg[i],
                            pcosh |-> sbpl_pcosh(sbpl_mask(arg[i]), M, break_scale, arg[i]),
                            piv_case |-> sbpl_piv_case(arg_piv), arg_piv |-> arg_piv,
                            pcosh_piv |-> pcosh_piv]]])

\* no test of alpha against beta; the quantity branch binds beta_ to alpha.value
Broken_powerlaw_evaluate(self, x, a, mode) ==
    LET alpha_ == a["alpha"]
        beta_ == IF mode = "units" THEN a["alpha"] ELSE a["beta"]
        K_ == a["K"]
        xb_ == a["xb"]
        piv_ == a["piv"]
        x_ == x
        unit_ == IF mode = "units" THEN self.y_unit ELSE None
    IN  Returned(self, Call("bplaw_eval", x_, <<K_, xb_, alpha_, beta_, piv_>>), unit_,
                 <<Len(x_)>>, bplaw_eval(x_, K_, xb_, alpha_, beta_, piv_))

\* StepFunction.evaluate with the upper end of the interval left out
StepFunction_evaluate_open_upper(self, x, a, mode) ==
    Returned(self, NoCall, QUnit(mode, self.punit["value"]), <<Len(x)>>,
             Exact([i \in 1..Len(x) |->
                     IF RLe(a["lower_bound"], x[i]) /\ RLt(x[i], a["upper_bound"])
                     THEN V(a["value"], I(0)) ELSE VZero]))

\* StepFunctionUpper.evaluate with the upper end of the interval included
StepFunctionUpper_evaluate_closed_upper(self, x, a, mode) ==
    Returned(self, NoCall, QUnit(mode, self.punit["value"]), <<Len(x)>>,
             Exact([i \in 1..Len(x) |->
                     IF RLe(a["lower_bound"], x[i]) /\ RLe(x[i], a["upper_bound"])
                     THEN V(a["value"], I(0)) ELSE VZero]))

StepFunction_evaluate(self, x, a, mode) ==
    Returned(self, NoCall, QUnit(mode, self.punit["value"]), <<Len(x)>>,
             Exact([i \in 1..Len(x) |->
                     IF RLe(a["lower_bound"], x[i]) /\ RLe(x[i], a["upper_bound"])
                     THEN V(a["value"], I(0)) ELSE VZero]))

StepFunctionUpper_evaluate(self, x, a, mode) ==
    Returned(self, NoCall, QUnit(mode, self.punit["value"]), <<Len(x)>>,
             Exact([i \in 1..Len(x) |->
                     IF RLe(a["lower_bound"], x[i]) /\ RLt(x[i], a["upper_bound"])
                     THEN V(a["value"], I(0)) ELSE VZero]))

\* zero where x/kT > 700; the expm1 branch is not computed here, so the
\* values are known only when the mask selects no sample
\* a selected sample is returned as the quotient the code writes, its
\* numerator K x x and the argument of expm1
blackbody_sample(K, x, arg) == <<"/expm1", RMul(K, RMul(x, x)), arg>>

\* Blackbody.evaluate with the threshold left out of the computed branch
Blackbody_evaluate_open(self, x, a, mode) ==
    Returned(self, NoCall,
             QUnit(mode, UMul(self.punit["K"], UPow(self.x_unit, 2))), <<Len(x)>>,
             [exact |-> \A i \in 1..Len(x) : RLe(I(700), RDiv(x[i], a["kT"])),
              v |-> [i \in 1..Len(x) |->
                       IF RLt(RDiv(x[i], a["kT"]), I(700))
                       THEN blackbody_sample(a["K"], x[i], RDiv(x[i], a["kT"]))
                       ELSE VZero]])

Blackbody_evaluate(self, x, a, mode) ==
    Returned(self, NoCall,
             QUnit(mode, UMul(self.punit["K"], UPow(self.x_unit, 2))), <<Len(x)>>,
             [exact |-> \A i \in 1..Len(x) : RLt(I(700), RDiv(x[i], a["kT"])),
              v |-> [i \in 1..Len(x) |->
                       IF RLe(RDiv(x[i], a["kT"]), I(700))
                       THEN blackbody_sample(a["K"], x[i], RDiv(x[i], a["kT"]))
                       ELSE VZero]])

Sin_evaluate(self, x, a, mode) ==
    Returned(self, NoCall, QUnit(mode, self.punit["K"]), <<Len(x)>>, Inexact)

Line_evaluate(self, x, a, mode) ==
    Returned(self, NoCall, QUnit(mode, self.punit["b"]), <<Len(x)>>,
             Exact([i \in 1..Len(x) |-> V(RAdd(RMul(a["a"], x[i]), a["b"]), I(0))]))

\* returns the argument k itself, not an array
Constant_evaluate(self, x, a, mode) ==
    Returned(self, NoCall, QUnit(mode, self.punit["k"]), <<>>,
             Exact(<<V(a["k"], I(0))>>))

DiracDelta_evaluate(self, x, a, mode) ==
    Returned(self, NoCall, QUnit(mode, self.punit["value"]), <<Len(x)>>,
             Exact([i \in 1..Len(x) |->
                     IF x[i] = a["zero_point"] THEN V(a["value"], I(0)) ELSE VZero]))

\* naima computes the flux from the particle distribution wrapper
Synchrotron_evaluate(self, x, a, mode) ==
    IF self.particle.cur = "none"
    THEN Raised(self, "AttributeError", None)
    ELSE Returned(self, Call("naima.models.Synchrotron.flux", x,
                             <<a["B"], a["distance"], a["emin"], a["emax"], a["need"]>>),
                  QUnit(mode, U(-1, -1, -2, 0, 0)), <<Len(x)>>, Inexact)

ComplexTestFunction_evaluate(self, x, a, mode) ==
    Returned(self, NoCall, QUnit(mode, self.punit["A"]), <<Len(x)>>,
             Exact([i \in 1..Len(x) |-> V(RAdd(a["A"], RMul(a["B"], x[i])), I(0))]))

\* E0 is computed before alpha is tested: with plain Python floats (py) and
\* alpha = -2 the division raises; numpy scalars and quantities give inf
Band_evaluate(self, x, a, mode, py) ==
    LET alpha == a["alpha"]
        beta == a["beta"]
        E0 == RDiv(a["xp"], RAdd(I(2), alpha))
    IN  IF RIsZero(RAdd(I(2), alpha)) /\ mode = "plain" /\ py
        THEN Raised(self, "ZeroDivisionError", None)
        ELSE IF RLt(alpha, beta)
        THEN Raised(self, "ModelAssertionViolation", None)
        ELSE LET alpha_ == alpha
                 beta_ == IF mode = "units" THEN alpha ELSE beta
                 K_ == a["K"]
                 E0_ == E0
                 piv_ == a["piv"]
                 x_ == x
                 unit_ == IF mode = "units" THEN self.y_unit ELSE None
             IN  Returned(self, Call("band_eval", x_, <<K_, alpha_, beta_, E0_, piv_>>),
                          unit_, <<Len(x_)>>, band_eval(x_, K_, alpha_, beta_, E0_, piv_))

Band_grbm_evaluate(self, x, a, mode) ==
    LET alpha == a["alpha"]
        beta == a["beta"]
        xc == a["xc"]
        K == a["K"]
        piv == a["piv"]
    IN  IF RLt(alpha, beta)
        THEN Raised(self, "ModelAssertionViolation", None)
        ELSE Returned(self, NoCall, QUnit(mode, self.punit["K"]), <<Len(x)>>,
                 IF RIsInt(alpha) /\ RIsInt(beta) /\ AllPositive(x) /\ xc[1] > 0
                 THEN Exact([i \in 1..Len(x) |->
                         IF RLt(x[i], RMul(RSub(alpha, beta), xc))
                         THEN V(RMul(K, RPow(RDiv(x[i], piv), alpha[1])),
                                RDiv(RNeg(x[i]), xc))
                         ELSE V(RMul(K, RMul(RPow(RDiv(RMul(RSub(alpha, beta), xc), piv),
                                                  alpha[1] - beta[1]),
                                             RPow(RDiv(x[i], piv), beta[1]))),
                                RSub(beta, alpha))])
                 ELSE Inexact)

\* The band integral is chosen by cases and named by the call it makes; its
\* value (incomplete gamma functions) is not computed.
Band_Calderone_evaluate(self, x, a, mode) ==
    LET alpha == a["alpha"]
        beta == a["beta"]
        opt == a["opt"]
        out_unit == QUnit(mode, UDiv(self.punit["F"], self.x_unit))
    IN  IF ~(opt = I(0) \/ opt = I(1))
        THEN Raised(self, "AssertionError", None)
        ELSE IF RLt(alpha, beta)
        THEN Raised(self, "ModelAssertionViolation", None)
        ELSE IF RLt(alpha, I(-2))
        THEN Raised(self, "ModelAssertionViolation", None)
        ELSE LET Ec == IF alpha = I(-2) THEN RDiv(a["xp"], R(1, 10000))
                       ELSE RDiv(a["xp"], RAdd(I(2), alpha))
                 Esplit == RMul(RSub(alpha, beta), Ec)
                 unit_ == IF mode = "units" THEN self.x_unit ELSE None
             IN  IF opt = I(0)
                 THEN Returned(self, Call("ggrb_int_cpl", x, <<alpha, Ec, a["a"], a["b"]>>),
                               out_unit, <<Len(x)>>, Inexact)
                 ELSE IF RLe(a["a"], Esplit) /\ RLe(Esplit, a["b"])
                 THEN Returned(self, Call("ggrb_int_cpl+ggrb_int_pl", x,
                                          <<alpha, Ec, a["a"], Esplit,
                                            alpha, beta, Ec, Esplit, a["b"]>>),
                               out_unit, <<Len(x)>>, Inexact)
                 ELSE IF RLt(Esplit, a["a"])
                 THEN Returned(self, Call("ggrb_int_pl", x,
                                          <<alpha, beta, Ec, a["a"], a["b"]>>),
                               out_unit, <<Len(x)>>, Inexact)
                 ELSE Raised(self, "RuntimeError", unit_)

Log_parabola_evaluate(self, x, a, mode) ==
    Returned(self, NoCall, QUnit(mode, self.punit["K"]), <<Len(x)>>, Inexact)

\* pygsl's gamma_inc normalises the flux
Cutoff_powerlaw_flux_evaluate(self, x, a, mode) ==
    Returned(self, Call("gamma_inc", x, <<a["a"], a["b"], a["index"], a["xc"]>>),
             QUnit(mode, self.y_unit), <<Len(x)>>, Inexact)

\* K exp(x / -xc)
Exponential_cutoff_evaluate(self, x, a, mode) ==
    Returned(self, NoCall, QUnit(mode, self.punit["K"]), <<Len(x)>>,
             Exact([i \in 1..Len(x) |-> V(a["K"], RDiv(x[i], RNeg(a["xc"])))]))

\* exp(-tau) from the ebltable opacity model
EBLattenuation_evaluate(self, x, a, mode) ==
    Returned(self, Call("opt_depth", x, <<a["redshift"]>>),
             QUnit(mode, dimensionless_unscaled), <<Len(x)>>, Inexact)

(***************************************************************************)
(* evaluate of the 2-D kernels (plain numbers; they have no unit branch).  *)
(* The geodesic distances come from angular_distance and vincenty, so the  *)
(* values are not computed, only the shape numpy broadcasting gives.       *)
(***************************************************************************)
Latitude_galactic_diffuse_evaluate(self, x, y, a, mode) ==
    Returned(self, Call("SkyCoord.transform_to", x, y), None, <<BroadcastLen(x, y)>>, Inexact)

Gaussian_on_sphere_evaluate(self, x, y, a, mode) ==
    Returned(self, Call("angular_distance", x, y), None, <<BroadcastLen(x, y)>>, Inexact)

Disk_on_sphere_evaluate(self, x, y, a, mode) ==
    Returned(self, Call("angular_distance", x, y), None, <<BroadcastLen(x, y)>>, Inexact)

\* stores the focal points it computes on the instance
Ellipse_on_sphere_evaluate(self, x, y, a, mode) ==
    [ Returned(self, Call("angular_distance", x, y), None, <<BroadcastLen(x, y)>>, Inexact)
      EXCEPT !.focal = [focal_pts |-> TRUE,
                        of |-> <<a["lon0"], a["lat0"], a["a"], a["e"], a["theta"]>>] ]

\* the pixel data of the loaded file: row r, column c of an array of shape
\* (NAXIS2, NAXIS1)
TemplatePixel(r, c) == I(10 * r + c + 1)

SpatialTemplate_2D_evaluate(self, x, y, a, mode) ==
    IF ~self.tmpl.loaded
    THEN Raised(self, "AttributeError", None)
    ELSE LET t == self.tmpl
             Xpix == [i \in 1..Len(x) |->
                        RTrunc(RAdd(RDiv(RSub(x[i], I(t.refX)), I(t.delXpix)), I(t.refXpix)))]
             Ypix == [i \in 1..Len(y) |->
                        RTrunc(RAdd(RDiv(RSub(y[i], I(t.refY)), I(t.delYpix)), I(t.refYpix)))]
             Xb(i) == Xpix[IF Len(x) = 1 THEN 1 ELSE i]
             Yb(i) == Ypix[IF Len(y) = 1 THEN 1 ELSE i]
             iz == { i \in 1..BroadcastLen(x, y) :
                       Xb(i) < t.nX /\ Xb(i) >= 0 /\ Yb(i) < t.nY /\ Yb(i) >= 0 }
         IN  IF \E i \in iz : i > Len(x) \/ i > Len(y)
             THEN Raised(self, "IndexError", None)
             ELSE IF \E i \in iz : Xpix[i] >= t.nY \/ Ypix[i] >= t.nX
             THEN Raised(self, "IndexError", None)
             ELSE Returned(self, NoCall, None, <<Len(x)>>,
                      Exact([i \in 1..Len(x) |->
                              IF i \in iz
                              THEN V(RMul(a["K"], TemplatePixel(Xpix[i], Ypix[i])), I(0))
                              ELSE VZero]))

\* takes lon0, lat0 and index; maxr and index are read from the instance
Power_law_on_sphere_evaluate(self, x, y, a, mode) ==
    Returned(self, Call("angular_distance", x,
                        <<a["lon0"], a["lat0"], self.val["maxr"], self.val["index"]>>),
             None, <<BroadcastLen(x, y)>>, Inexact)

(***************************************************************************)
(* The parameter arguments of each evaluate, after x (and y).              *)
(***************************************************************************)
EvaluateSignature(c) ==
    CASE c = "Powerlaw_lognorm" -> <<"K", "piv", "index">>
      [] c = "Powerlaw" -> <<"K", "piv", "index">>
      [] c = "Powerlaw_flux" -> <<"F", "index", "a", "b", "piv">>
      [] c = "Cutoff_powerlaw" -> <<"K", "piv", "index", "xc">>
      [] c = "Inverse_cutoff_powerlaw" -> <<"K", "piv", "index", "b">>
      [] c = "Super_cutoff_powerlaw" -> <<"K", "piv", "index", "xc", "gamma">>
      [] c = "SmoothlyBrokenPowerLaw" ->
             <<"K", "alpha", "break_energy", "break_scale", "beta", "pivot">>
      [] c = "Broken_powerlaw" -> <<"K", "xb", "alpha", "beta", "piv">>
      [] c = "StepFunction" -> <<"lower_bound", "upper_bound", "value">>
      [] c = "StepFunctionUpper" -> <<"lower_bound", "upper_bound", "value">>
      [] c = "Blackbody" -> <<"K", "kT">>
      [] c = "Sin" -> <<"K", "f", "phi">>
      [] c = "Line" -> <<"a", "b">>
      [] c = "Constant" -> <<"k">>
      [] c = "DiracDelta" -> <<"value", "zero_point">>
      [] c = "Synchrotron" -> <<"B", "distance", "emin", "emax", "need">>
      [] c = "_ComplexTestFunction" -> <<"A", "B">>
      [] c = "Band" -> <<"K", "alpha", "xp", "beta", "piv">>
      [] c = "Band_grbm" -> <<"K", "alpha", "xc", "beta", "piv">>
      [] c = "Band_Calderone" -> <<"alpha", "beta", "xp", "F", "a", "b", "opt">>
      [] c = "Log_parabola" -> <<"K", "piv", "alpha", "beta">>
      [] c = "Cutoff_powerlaw_flux" -> <<"F", "index", "xc", "a", "b">>
      [] c = "Exponential_cutoff" -> <<"K", "xc">>
      [] c = "EBLattenuation" -> <<"redshift">>
      [] c = "Latitude_galactic_diffuse" -> <<"K", "sigma_b">>
      [] c = "Gaussian_on_sphere" -> <<"lon0", "lat0", "sigma">>
      [] c = "Disk_on_sphere" -> <<"lon0", "lat0", "radius">>
      [] c = "Ellipse_on_sphere" -> <<"lon0", "lat0", "a", "e", "theta">>
      [] c = "SpatialTemplate_2D" -> <<"K">>
      [] c = "Power_law_on_sphere" -> <<"lon0", "lat0", "index">>

\* a bare np.zeros(x.shape) carries no unit
zero_array_bare(c, self, mode) == None

\* the unit of the array np.zeros(x.shape) * ... * 0 the masked kernels fill
zero_array(c, self, mode) ==
    CASE c \in { "StepFunction", "StepFunctionUpper", "DiracDelta" } ->
             QUnit(mode, self.punit["value"])
      [] c = "Blackbody" ->
             QUnit(mode, UMul(UMul(self.punit["K"], self.x_unit), self.x_unit))
      [] c = "Band_grbm" -> QUnit(mode, self.punit["K"])
      [] c = "Band_Calderone" -> QUnit(mode, UDiv(self.punit["F"], self.x_unit))

\* the samples the mask of kernel c does not select
Unselected(c, x, a) ==
    CASE c = "StepFunction" ->
             { i \in 1..Len(x) :
                 ~(RLe(a["lower_bound"], x[i]) /\ RLe(x[i], a["upper_bound"])) }
      [] c = "StepFunctionUpper" ->
             { i \in 1..Len(x) :
                 ~(RLe(a["lower_bound"], x[i]) /\ RLt(x[i], a["upper_bound"])) }
      [] c = "DiracDelta" -> { i \in 1..Len(x) : x[i] # a["zero_point"] }
      [] c = "Blackbody" -> { i \in 1..Len(x) : ~RLe(RDiv(x[i], a["kT"]), I(700)) }
      [] c \in { "Band_grbm", "Band_Calderone" } -> {}

\* evaluate of class c
EvaluateOf(c, self, x, y, a, mode, py) ==
    CASE c = "Powerlaw_lognorm" -> Powerlaw_lognorm_evaluate(self, x, a, mode)
      [] c = "Powerlaw" -> Powerlaw_evaluate(self, x, a, mode)
      [] c = "Powerlaw_flux" -> Powerlaw_flux_evaluate(self, x, a, mode)
      [] c = "Cutoff_powerlaw" -> Cutoff_powerlaw_evaluate(self, x, a, mode)
      [] c = "Inverse_cutoff_powerlaw" -> Inverse_cutoff_powerlaw_evaluate(self, x, a, mode)
      [] c = "Super_cutoff_powerlaw" -> Super_cutoff_powerlaw_evaluate(self, x, a, mode)
      [] c = "SmoothlyBrokenPowerLaw" -> SmoothlyBrokenPowerLaw_evaluate(self, x, a, mode)
      [] c = "Broken_powerlaw" -> Broken_powerlaw_evaluate(self, x, a, mode)
      [] c = "StepFunction" -> StepFunction_evaluate(self, x, a, mode)
      [] c = "StepFunctionUpper" -> StepFunctionUpper_evaluate(self, x, a, mode)
      [] c = "Blackbody" -> Blackbody_evaluate(self, x, a, mode)
      [] c = "Sin" -> Sin_evaluate(self, x, a, mode)
      [] c = "Line" -> Line_evaluate(self, x, a, mode)
      [] c = "Constant" -> Constant_evaluate(self, x, a, mode)
      [] c = "DiracDelta" -> DiracDelta_evaluate(self, x, a, mode)
      [] c = "Synchrotron" -> Synchrotron_evaluate(self, x, a, mode)
      [] c = "_ComplexTestFunction" -> ComplexTestFunction_evaluate(self, x, a, mode)
      [] c = "Band" -> Band_evaluate(self, x, a, mode, py)
      [] c = "Band_grbm" -> Band_grbm_evaluate(self, x, a, mode)
      [] c = "Band_Calderone" -> Band_Calderone_evaluate(self, x, a, mode)
      [] c = "Log_parabola" -> Log_parabola_evaluate(self, x, a, mode)
      [] c = "Cutoff_powerlaw_flux" -> Cutoff_powerlaw_flux_evaluate(self, x, a, mode)
      [] c = "Exponential_cutoff" -> Exponential_cutoff_evaluate(self, x, a, mode)
      [] c = "EBLattenuation" -> EBLattenuation_evaluate(self, x, a, mode)
      [] c = "Latitude_galactic_diffuse" ->
             Latitude_galactic_diffuse_evaluate(self, x, y, a, mode)
      [] c = "Gaussian_on_sphere" -> Gaussian_on_sphere_evaluate(self, x, y, a, mode)
      [] c = "Disk_on_sphere" -> Disk_on_sphere_evaluate(self, x, y, a, mode)
      [] c = "Ellipse_on_sphere" -> Ellipse_on_sphere_evaluate(self, x, y, a, mode)
      [] c = "SpatialTemplate_2D" -> SpatialTemplate_2D_evaluate(self, x, y, a, mode)
      [] c = "Power_law_on_sphere" -> Power_law_on_sphere_evaluate(self, x, y, a, mode)

(***************************************************************************)
(* Inputs of the model: the values a caller gives the parameters (the      *)
(* declared initial value and a few others, some outside the declared      *)
(* bounds), and the sample arrays handed to evaluate (the windows of at    *)
(* most MaxLen consecutive points of a sample grid).                       *)
(***************************************************************************)
ExtraValues(c, p) ==
    CASE c = "Powerlaw_lognorm" /\ p = "index" -> { I(-1) }
      [] c = "Powerlaw" /\ p = "index" -> { I(-1) }
      [] c = "Powerlaw" /\ p = "K" -> { I(2) }
      [] c = "Powerlaw_flux" /\ p = "index" -> { I(-1) }
      [] c = "Powerlaw_flux" /\ p = "b" -> { I(10) }
      [] c = "Cutoff_powerlaw" /\ p = "index" -> { I(-1) }
      [] c = "Cutoff_powerlaw" /\ p = "xc" -> { I(5) }
      [] c = "Inverse_cutoff_powerlaw" /\ p = "index" -> { I(-1) }
      [] c = "Inverse_cutoff_powerlaw" /\ p = "b" -> { I(2) }
      [] c = "Super_cutoff_powerlaw" /\ p = "index" -> { I(-1) }
      [] c = "Super_cutoff_powerlaw" /\ p = "gamma" -> { I(2) }
      [] c = "SmoothlyBrokenPowerLaw" /\ p = "alpha" -> { I(-3) }
      [] c = "SmoothlyBrokenPowerLaw" /\ p = "beta" -> { I(-3) }
      [] c = "Broken_powerlaw" /\ p = "alpha" -> { I(-2), I(-3) }
      [] c = "Broken_powerlaw" /\ p = "beta" -> { I(-1), I(-2) }
      [] c \in { "StepFunction", "StepFunctionUpper" } /\ p = "upper_bound" -> { I(2) }
      [] c \in { "StepFunction", "StepFunctionUpper" } /\ p = "value" -> { I(3) }
      [] c = "Blackbody" /\ p = "kT" -> { R(1, 100) }
      [] c = "Sin" /\ p = "K" -> { I(2) }
      [] c = "Line" /\ p = "a" -> { I(2) }
      [] c = "Line" /\ p = "b" -> { I(1) }
      [] c = "Constant" /\ p = "k" -> { I(5) }
      [] c = "DiracDelta" /\ p = "value" -> { I(2) }
      [] c = "DiracDelta" /\ p = "zero_point" -> { I(1) }
      [] c = "Synchrotron" /\ p = "distance" -> { I(2) }
      [] c = "_ComplexTestFunction" /\ p = "B" -> { I(1) }
      [] c = "Band" /\ p = "alpha" -> { I(-3), I(-2), I(0) }
      [] c = "Band" /\ p = "beta" -> { I(-3), I(-1) }
      [] c = "Band_grbm" /\ p = "alpha" -> { I(-3), I(0) }
      [] c = "Band_grbm" /\ p = "beta" -> { I(-3) }
      [] c = "Band_Calderone" /\ p = "alpha" -> { I(-3) }
      [] c = "Band_Calderone" /\ p = "beta" -> { I(-3) }
      [] c = "Band_Calderone" /\ p = "b" -> { I(100) }
      [] c = "Band_Calderone" /\ p = "opt" -> { I(0), R(1, 2) }
      [] c = "Log_parabola" /\ p = "alpha" -> { I(-1) }
      [] c = "Cutoff_powerlaw_flux" /\ p = "index" -> { I(-1) }
      [] c = "Exponential_cutoff" /\ p = "K" -> { I(2) }
      [] c = "EBLattenuation" /\ p = "redshift" -> { I(2) }
      [] c = "Latitude_galactic_diffuse" /\ p = "sigma_b" -> { I(2) }
      [] c = "Gaussian_on_sphere" /\ p = "lon0" -> { I(280), I(350) }
      [] c = "Gaussian_on_sphere" /\ p = "lat0" -> { I(20), I(80) }
      [] c = "Gaussian_on_sphere" /\ p = "sigma" -> { I(1) }
      [] c = "Disk_on_sphere" /\ p = "lon0" -> { I(280), I(350) }
      [] c = "Disk_on_sphere" /\ p = "lat0" -> { I(20), I(80) }
      [] c = "Disk_on_sphere" /\ p = "radius" -> { I(1) }
      [] c = "Ellipse_on_sphere" /\ p = "lon0" -> { I(280), I(350) }
      [] c = "Ellipse_on_sphere" /\ p = "lat0" -> { I(20), I(80) }
      [] c = "Ellipse_on_sphere" /\ p = "e" -> { I(0) }
      [] c = "SpatialTemplate_2D" /\ p = "K" -> { I(2) }
      [] c = "Power_law_on_sphere" /\ p = "lon0" -> { I(350) }
      [] c = "Power_law_on_sphere" /\ p = "index" -> { I(-3) }
      [] c = "Power_law_on_sphere" /\ p = "maxr" -> { R(1, 100) }
      [] OTHER -> {}

ValueDomain(c, p) == { Param(c, p).init } \cup ExtraValues(c, p)

\* the sample grid of the independent variable x
XGrid(c) ==
    CASE c \in { "Band", "Band_grbm", "Band_Calderone" } ->
             << I(100), I(1000), I(10) >>
      [] c = "SmoothlyBrokenPowerLaw" -> << R(3, 100), I(300), I(30000), I(300000) >>
      [] c = "Broken_powerlaw" -> << I(1), I(100), I(10) >>
      [] c \in { "StepFunction", "StepFunctionUpper" } -> << R(-1, 2), R(1, 2), I(1) >>
      [] c = "DiracDelta" -> << I(0), I(1), I(2) >>
      [] c = "Blackbody" -> << I(7), I(10), I(100) >>
      [] c = "_ComplexTestFunction" -> << I(1), I(2), I(3) >>
      [] c \in Classes2D -> << I(0), I(10) >>
      [] OTHER -> << I(10), I(100), I(1) >>

\* the sample grid of the second independent variable of the 2-D kernels
YGrid(c) == << I(0), I(10) >>

Windows(grid) ==
    { SubSeq(grid, i, i + n - 1) : <<i, n>> \in
          { w \in (1..Len(grid)) \X (1..MaxLen) : w[1] + w[2] - 1 <= Len(grid) } }

XInputs(c) == Windows(XGrid(c))
YInputs(c) == IF c \in Classes2D THEN Windows(YGrid(c)) ELSE { <<>> }

\* the FITS headers load_file reads: the extents NAXIS1 x NAXIS2 and the sign
\* of the pixel scale CDELT1 vary
Headers ==
    { [CRPIX1 |-> 1, CRPIX2 |-> 1, CDELT1 |-> d, CDELT2 |-> 10, CRVAL1 |-> 0,
       CRVAL2 |-> 0, NAXIS1 |-> n1, NAXIS2 |-> n2] :
          <<d, n1, n2>> \in { 10, -10 } \X { 1, 2 } \X { 1, 2 } }

\* the particle distributions a caller can hand to set_particle_distribution
Handles == { "f1", "f2" }

(***************************************************************************)
(* The state machine.                                                      *)
(***************************************************************************)
\* the instance attributes as the kernels see them
Self ==
    [x_unit |-> axes[1], y_unit |-> axes[2], z_unit |-> axes[3], punit |-> punit,
     val |-> val, tmpl |-> tmpl, particle |-> particle, focal |-> focal,
     widened |-> widened]

\* what the last operation did
OpRes(op) ==
    [op |-> op, mode |-> "", x |-> <<>>, y |-> <<>>, args |-> <<>>, py |-> FALSE,
     outcome |-> "", call |-> NoCall, unit |-> None, shape |-> <<>>, value |-> <<>>,
     exact |-> FALSE, axis |-> "", assigned |-> {}]

NoTemplate ==
    [loaded |-> FALSE, refXpix |-> 0, refYpix |-> 0, delXpix |-> 0, delYpix |-> 0,
     refX |-> 0, refY |-> 0, nX |-> 0, nY |-> 0]

\* The optional packages, the flag the module sets for each and the warning
\* category it emits when the import fails.
Packages == { "naima", "pygsl", "ebltable" }

Flag(pkg) ==
    CASE pkg = "naima" -> "has_naima"
      [] pkg = "pygsl" -> "has_gsl"
      [] pkg = "ebltable" -> "has_ebltable"

WarningCategory(pkg) ==
    CASE pkg = "naima" -> "NaimaNotAvailable"
      [] pkg = "pygsl" -> "GSLNotAvailable"
      [] pkg = "ebltable" -> "EBLTableNotAvailable"

\* the three try / except ImportError blocks, in the order of the module body
ImportOrder == << "naima", "pygsl", "ebltable" >>

\* the flag that guards the definition of class c; "" for an unguarded class
GuardOf(c) ==
    CASE c = "Synchrotron" -> "has_naima"
      [] c = "Cutoff_powerlaw_flux" -> "has_gsl"
      [] c = "EBLattenuation" -> "has_ebltable"
      [] OTHER -> ""

\* the flags and warnings after the module body has run with the packages
\* miss missing
FlagsAfterLoad(miss) ==
    [f \in { Flag(pkg) : pkg \in Packages } |->
        \A pkg \in Packages : Flag(pkg) = f => pkg \notin miss]

RECURSIVE WarningsFrom(_, _)
WarningsFrom(i, miss) ==
    IF i > Len(ImportOrder) THEN <<>>
    ELSE (IF ImportOrder[i] \in miss THEN << WarningCategory(ImportOrder[i]) >> ELSE <<>>)
         \o WarningsFrom(i + 1, miss)

\* the attributes of a fresh instance of class c
InitVal(c) == [p \in ParamNames(c) |-> Param(c, p).init]
InitUnit(c) == [p \in ParamNames(c) |-> Param(c, p).unit]
NoParticle == [cur |-> "none", units |-> [h \in Handles |-> <<None, None>>]]
NoFocal == [focal_pts |-> FALSE, of |-> <<>>]

(***************************************************************************)
(* get_boundaries of the functions on the sphere: the rectangle            *)
(* (min_lon, max_lon), (min_lat, max_lat) in degrees.                      *)
(***************************************************************************)
RMax2(a, b) == IF RLt(a, b) THEN b ELSE a
RMin2(a, b) == IF RLt(a, b) THEN a ELSE b
RAbs(a) == <<Abs(a[1]), a[2]>>

\* np.cos(deg * np.pi / 180.) at the angles the bounded centres produce, to
\* six decimals where it is irrational
CosDeg(angle) ==
    CASE angle = I(0) -> I(1)
      [] angle = I(40) -> R(766044, 1000000)
      [] angle = I(60) -> R(1, 2)
      [] angle = I(80) -> R(173648, 1000000)

\* parameter.max_value: None once the bounds are removed
max_value(self, c, p) == IF self.widened THEN NoBound ELSE Param(c, p).max

\* truncated_boundaries without the clipping of the latitudes
truncated_boundaries_unclipped(lon0, lat0, max_shape) ==
    LET two_max == RMul(I(2), I(max_shape[2] * Pow10(max_shape[3])))
        min_lat == RSub(lat0, two_max)
        max_lat == RAdd(lat0, two_max)
        max_abs_lat == RMax2(RAbs(min_lat), RAbs(max_lat))
        half == RDiv(two_max, CosDeg(max_abs_lat))
        lo == RSub(lon0, half)
        hi == RAdd(lon0, half)
        lon == IF RLt(I(89), max_abs_lat) \/ RLe(I(180), half)
               THEN <<I(0), I(360)>>
               ELSE IF RLt(lo, I(0)) THEN <<RAdd(lo, I(360)), hi>>
               ELSE IF RLt(I(360), hi) THEN <<lo, RSub(hi, I(360))>>
               ELSE <<lo, hi>>
    IN [outcome |-> "returned", value |-> <<lon, <<min_lat, max_lat>>>>]

\* truncated_boundaries with the elif branch left out
truncated_boundaries_no_elif(lon0, lat0, max_shape) ==
    LET two_max == RMul(I(2), I(max_shape[2] * Pow10(max_shape[3])))
        min_lat == RMax2(I(-90), RSub(lat0, two_max))
        max_lat == RMin2(I(90), RAdd(lat0, two_max))
        max_abs_lat == RMax2(RAbs(min_lat), RAbs(max_lat))
        half == RDiv(two_max, CosDeg(max_abs_lat))
        lo == RSub(lon0, half)
        hi == RAdd(lon0, half)
        lon == IF RLt(I(89), max_abs_lat) \/ RLe(I(180), half)
               THEN <<I(0), I(360)>>
               ELSE IF RLt(lo, I(0)) THEN <<RAdd(lo, I(360)), hi>>
               ELSE <<lo, hi>>
    IN [outcome |-> "returned", value |-> <<lon, <<min_lat, max_lat>>>>]

\* the body the three truncated shapes share, max_shape being the max_value
\* of sigma, radius or a; 2 * None raises TypeError
truncated_boundaries(lon0, lat0, max_shape) ==
    IF ~max_shape[1] THEN [outcome |-> "TypeError", value |-> <<>>]
    ELSE
    LET two_max == RMul(I(2), I(max_shape[2] * Pow10(max_shape[3])))
        min_lat == RMax2(I(-90), RSub(lat0, two_max))
        max_lat == RMin2(I(90), RAdd(lat0, two_max))
        max_abs_lat == RMax2(RAbs(min_lat), RAbs(max_lat))
        half == RDiv(two_max, CosDeg(max_abs_lat))
        lo == RSub(lon0, half)
        hi == RAdd(lon0, half)
        lon == IF RLt(I(89), max_abs_lat) \/ RLe(I(180), half)
               THEN <<I(0), I(360)>>
               ELSE IF RLt(lo, I(0)) THEN <<RAdd(lo, I(360)), hi>>
               ELSE IF RLt(I(360), hi) THEN <<lo, RSub(hi, I(360))>>
               ELSE <<lo, hi>>
    IN [outcome |-> "returned", value |-> <<lon, <<min_lat, max_lat>>>>]

Gaussian_on_sphere_get_boundaries(self) ==
    truncated_boundaries(self.val["lon0"], self.val["lat0"],
                         max_value(self, "Gaussian_on_sphere", "sigma"))

Disk_on_sphere_get_boundaries(self) ==
    truncated_boundaries(self.val["lon0"], self.val["lat0"],
                         max_value(self, "Disk_on_sphere", "radius"))

Ellipse_on_sphere_get_boundaries(self) ==
    truncated_boundaries(self.val["lon0"], self.val["lat0"],
                         max_value(self, "Ellipse_on_sphere", "a"))

\* no wraparound and no clipping
Power_law_on_sphere_get_boundaries(self) ==
    [outcome |-> "returned",
     value |-> << <<RSub(self.val["lon0"], self.val["maxr"]),
                    RAdd(self.val["lon0"], self.val["maxr"])>>,
                  <<RSub(self.val["lat0"], self.val["maxr"]),
                    RAdd(self.val["lat0"], self.val["maxr"])>> >>]

\* SpatialTemplate_2D.get_boundaries returning the corners in pixel order
SpatialTemplate_2D_get_boundaries_unsorted(self) ==
    IF ~self.tmpl.loaded
    THEN [outcome |-> "AttributeError", value |-> <<>>]
    ELSE LET t == self.tmpl
             min_ra == (0 - t.refXpix) * t.delXpix + t.refX
             max_ra == ((t.nX - 1) - t.refXpix) * t.delXpix + t.refX
             min_dec == (0 - t.refYpix) * t.delYpix + t.refY
             max_dec == ((t.nY - 1) - t.refYpix) * t.delYpix + t.refY
         IN  [outcome |-> "returned",
              value |-> << <<I(min_ra), I(max_ra)>>, <<I(min_dec), I(max_dec)>> >>]

\* the corners of the grid, each pair sorted; the dataset fields do not exist
\* before load_file
SpatialTemplate_2D_get_boundaries(self) ==
    IF ~self.tmpl.loaded
    THEN [outcome |-> "AttributeError", value |-> <<>>]
    ELSE LET t == self.tmpl
             min_ra == (0 - t.refXpix) * t.delXpix + t.refX
             max_ra == ((t.nX - 1) - t.refXpix) * t.delXpix + t.refX
             min_dec == (0 - t.refYpix) * t.delYpix + t.refY
             max_dec == ((t.nY - 1) - t.refYpix) * t.delYpix + t.refY
             min2(a, b) == IF a < b THEN a ELSE b
             max2(a, b) == IF a < b THEN b ELSE a
         IN  [outcome |-> "returned",
              value |-> << <<I(min2(min_ra, max_ra)), I(max2(min_ra, max_ra))>>,
                           <<I(min2(min_dec, max_dec)), I(max2(min_dec, max_dec))>> >>]

HasBoundaries ==
    { "Gaussian_on_sphere", "Disk_on_sphere", "Ellipse_on_sphere",
      "SpatialTemplate_2D", "Power_law_on_sphere" }

GetBoundariesOf(c, self) ==
    CASE c = "Gaussian_on_sphere" -> Gaussian_on_sphere_get_boundaries(self)
      [] c = "Disk_on_sphere" -> Disk_on_sphere_get_boundaries(self)
      [] c = "Ellipse_on_sphere" -> Ellipse_on_sphere_get_boundaries(self)
      [] c = "SpatialTemplate_2D" -> SpatialTemplate_2D_get_boundaries(self)
      [] c = "Power_law_on_sphere" -> Power_law_on_sphere_get_boundaries(self)

\* The instance after construction, in a module loaded with every optional
\* package present: every parameter at its declared initial value, carrying
\* the unit its metadata fixes, if any.
Init ==
    /\ missing = {}
    /\ loaded = TRUE
    /\ has = FlagsAfterLoad({})
    /\ warned = <<>>
    /\ cls \in Classes
    /\ val = InitVal(cls)
    /\ widened = FALSE
    /\ punit = InitUnit(cls)
    /\ axes = <<None, None, None>>
    /\ unitsSet = FALSE
    /\ particle = NoParticle
    /\ tmpl = NoTemplate
    /\ focal = NoFocal
    /\ res = OpRes("init")

\* parameter.value = v; a value outside the bounds is refused
SetValue(p, v) ==
    /\ p \in ParamNames(cls)
    /\ v \in ValueDomain(cls, p)
    /\ v # val[p]
    /\ widened \/ InDeclaredBounds(cls, p, v)
    /\ val' = [val EXCEPT ![p] = v]
    /\ res' = OpRes("set_value")
    /\ UNCHANGED <<modvars, cls, widened, punit, axes, unitsSet, particle, tmpl, focal>>

\* the caller removes the bounds of the parameters
SetBounds ==
    /\ ~widened
    /\ widened' = TRUE
    /\ res' = OpRes("set_bounds")
    /\ UNCHANGED <<modvars, cls, val, punit, axes, unitsSet, particle, tmpl, focal>>

\* set_units stores the axis units and runs the hook of the class
SetUnits(x_unit, y_unit, z_unit) ==
    /\ x_unit \in XUnitInputs(cls)
    /\ y_unit \in YUnitInputs(cls)
    /\ z_unit \in ZUnitInputs(cls)
    /\ \E h \in { Hook(cls, x_unit, y_unit, z_unit) } :
         /\ axes' = <<x_unit, y_unit, z_unit>>
         /\ punit' = [p \in ParamNames(cls) |->
                        IF p \in DOMAIN h.assign THEN h.assign[p] ELSE punit[p]]
         /\ unitsSet' = (unitsSet \/ h.exc = "")
         /\ res' = [OpRes("set_units") EXCEPT
                       !.outcome = IF h.exc = "" THEN "returned" ELSE h.exc,
                       !.axis = h.axis, !.assigned = DOMAIN h.assign]
    /\ UNCHANGED <<modvars, cls, val, widened, particle, tmpl, focal>>

\* the last set_units went through, so quantities can be handed to evaluate
UnitsUsable == unitsSet /\ Hook(cls, axes[1], axes[2], axes[3]).exc = ""

\* The function is called on the samples x (and y): evaluate receives the
\* current value of each parameter of its signature, as plain numbers or, once
\* the units are set, as quantities.  py tells whether the plain numbers are
\* Python floats or numpy scalars.
Evaluate(x, y, mode, py) ==
    /\ x \in XInputs(cls)
    /\ y \in YInputs(cls)
    /\ cls \in Classes2D => Broadcastable(x, y)
    /\ mode \in { "plain", "units" }
    /\ mode = "units" => (cls \in Classes1D /\ UnitsUsable)
    /\ py => (cls = "Band" /\ mode = "plain")
    /\ \E a \in { [p \in { EvaluateSignature(cls)[i] :
                             i \in 1..Len(EvaluateSignature(cls)) } |-> val[p]] } :
         \E r \in { EvaluateOf(cls, Self, x, y, a, mode, py) } :
            /\ res' = [op |-> "evaluate", mode |-> mode, x |-> x, y |-> y, args |-> a,
                       py |-> py, outcome |-> r.outcome, call |-> r.call,
                       unit |-> r.unit, shape |-> r.shape, value |-> r.value,
                       exact |-> r.exact, axis |-> "", assigned |-> {}]
            /\ focal' = r.focal
    /\ UNCHANGED <<modvars, cls, val, widened, punit, axes, unitsSet, particle,
                   tmpl>>

\* SpatialTemplate_2D.load_file: the nine dataset fields are set from one file
LoadFile(hdr) ==
    /\ cls = "SpatialTemplate_2D"
    /\ hdr \in Headers
    /\ tmpl' = [loaded |-> TRUE, refXpix |-> hdr.CRPIX1, refYpix |-> hdr.CRPIX2,
                delXpix |-> hdr.CDELT1, delYpix |-> hdr.CDELT2, refX |-> hdr.CRVAL1,
                refY |-> hdr.CRVAL2, nX |-> hdr.NAXIS1, nY |-> hdr.NAXIS2]
    /\ res' = OpRes("load_file")
    /\ UNCHANGED <<modvars, cls, val, widened, punit, axes, unitsSet, particle,
                   focal>>

\* Synchrotron stores the function and sets its units to (energy, 1/energy);
\* _ComplexTestFunction only stores it
SetParticleDistribution(f) ==
    /\ cls \in { "Synchrotron", "_ComplexTestFunction" }
    /\ f \in Handles
    /\ particle' =
         [cur |-> f,
          units |-> IF cls = "Synchrotron"
                    THEN [particle.units EXCEPT
                            ![f] = <<current_units_energy, UPow(current_units_energy, -1)>>]
                    ELSE particle.units]
    /\ res' = OpRes("set_particle_distribution")
    /\ UNCHANGED <<modvars, cls, val, widened, punit, axes, unitsSet, tmpl, focal>>

\* get_boundaries reads the centre and the bound of the shape; it changes
\* nothing
GetBoundaries ==
    /\ cls \in HasBoundaries
    /\ \E r \in { GetBoundariesOf(cls, Self) } :
          res' = [OpRes("get_boundaries") EXCEPT !.outcome = r.outcome,
                                                !.value = r.value]
    /\ UNCHANGED <<modvars, cls, val, widened, punit, axes, unitsSet, particle, tmpl,
                   focal>>

\* get_particle_distribution always answering with the first handle
get_particle_distribution_first(self) ==
    IF self.particle.cur = "none"
    THEN [outcome |-> "AttributeError", value |-> <<>>]
    ELSE [outcome |-> "returned", value |-> "f1"]

\* return self._particle_distribution; the attribute does not exist before
\* set_particle_distribution
get_particle_distribution(self) ==
    IF self.particle.cur = "none"
    THEN [outcome |-> "AttributeError", value |-> <<>>]
    ELSE [outcome |-> "returned", value |-> self.particle.cur]

GetParticleDistribution ==
    /\ cls \in { "Synchrotron", "_ComplexTestFunction" }
    /\ \E r \in { get_particle_distribution(Self) } :
          res' = [OpRes("get_particle_distribution") EXCEPT !.outcome = r.outcome,
                                                           !.value = r.value]
    /\ UNCHANGED <<modvars, cls, val, widened, punit, axes, unitsSet, particle, tmpl,
                   focal>>

Next ==
    \/ \E p \in ParamNames(cls) : \E v \in ValueDomain(cls, p) : SetValue(p, v)
    \/ SetBounds
    \/ \E x_unit \in XUnitInputs(cls), y_unit \in YUnitInputs(cls),
          z_unit \in ZUnitInputs(cls) : SetUnits(x_unit, y_unit, z_unit)
    \/ \E x \in XInputs(cls), y \in YInputs(cls), mode \in { "plain", "units" },
          py \in BOOLEAN : Evaluate(x, y, mode, py)
    \/ \E hdr \in Headers : LoadFile(hdr)
    \/ \E f \in Handles : SetParticleDistribution(f)
    \/ GetBoundaries
    \/ GetParticleDistribution

Spec == Init /\ [][Next]_vars

(***************************************************************************)
(* Loading the module and constructing a kernel, with any of the optional  *)
(* packages missing.                                                       *)
(***************************************************************************)
InitLoad ==
    /\ missing \in SUBSET Packages
    /\ loaded = FALSE
    /\ has = [f \in { Flag(pkg) : pkg \in Packages } |-> FALSE]
    /\ warned = <<>>
    /\ cls = ""
    /\ val = <<>>
    /\ widened = FALSE
    /\ punit = <<>>
    /\ axes = <<None, None, None>>
    /\ unitsSet = FALSE
    /\ particle = NoParticle
    /\ tmpl = NoTemplate
    /\ focal = NoFocal
    /\ res = OpRes("init")

\* The module body runs: each failed import warns once and clears its flag,
\* and the body goes on.
LoadModule ==
    /\ ~loaded
    /\ loaded' = TRUE
    /\ has' = FlagsAfterLoad(missing)
    /\ warned' = WarningsFrom(1, missing)
    /\ res' = [OpRes("load") EXCEPT !.outcome = "returned"]
    /\ UNCHANGED <<missing, cls, val, widened, punit, axes, unitsSet, particle, tmpl,
                   focal>>

\* A caller constructs class c, naming it as an attribute of the module or in
\* a from-import.  A class whose guard flag is False was never defined.
Construct(c, how) ==
    /\ loaded
    /\ cls = ""
    /\ c \in Classes
    /\ how \in { "attribute", "import" }
    /\ IF GuardOf(c) = "" \/ has[GuardOf(c)]
       THEN /\ cls' = c
            /\ val' = InitVal(c)
            /\ punit' = InitUnit(c)
            /\ res' = [OpRes("construct") EXCEPT !.outcome = "returned",
                                                 !.call = Call(c, <<>>, <<>>)]
       ELSE /\ res' = [OpRes("construct") EXCEPT
                          !.outcome = IF how = "attribute" THEN "AttributeError"
                                      ELSE "ImportError",
                          !.call = Call(c, <<>>, <<>>)]
            /\ UNCHANGED <<cls, val, punit>>
    /\ UNCHANGED <<modvars, widened, axes, unitsSet, particle, tmpl, focal>>

NextLoad ==
    \/ LoadModule
    \/ \E c \in Classes, how \in { "attribute", "import" } : Construct(c, how)

SpecLoad == InitLoad /\ [][NextLoad]_vars

(***************************************************************************)
(* Properties.                                                             *)
(***************************************************************************)
\* the last operation was an evaluate call of one of the classes cs
Evaluated(cs) == res.op = "evaluate" /\ cls \in cs

DomainViolation == { "ModelAssertionViolation", "ModelDomainViolation" }

\* C1: every call of Band.evaluate, Band_grbm.evaluate and
\* Band_Calderone.evaluate made with alpha < beta raises
\* ModelAssertionViolation and returns no array, whatever the values were
\* changed to before the call.
C1_AlphaBelowBetaRaisesViolation ==
    (Evaluated({ "Band", "Band_grbm", "Band_Calderone" })
       /\ RLt(res.args["alpha"], res.args["beta"]))
    => (res.outcome = "ModelAssertionViolation" /\ res.shape = <<>>)

\* C2: Broken_powerlaw.evaluate and SmoothlyBrokenPowerLaw.evaluate called
\* with alpha < beta raise a domain violation instead of returning an array.
C2_BrokenPowerlawsRaiseViolation ==
    (Evaluated({ "Broken_powerlaw", "SmoothlyBrokenPowerLaw" })
       /\ RLt(res.args["alpha"], res.args["beta"]))
    => res.outcome \in DomainViolation

\* C3: for Powerlaw, Cutoff_powerlaw, Inverse_cutoff_powerlaw, Broken_powerlaw
\* and Band, a call with quantities does what the plain branch does on the same
\* magnitudes: the same outcome, the same kernel call with the same arguments,
\* and the same numbers.
C3_UnitRoundTrip ==
    (Evaluated({ "Powerlaw", "Cutoff_powerlaw", "Inverse_cutoff_powerlaw",
                 "Broken_powerlaw", "Band" }) /\ res.mode = "units")
    => LET plain == EvaluateOf(cls, Self, res.x, res.y, res.args, "plain", FALSE)
       IN  /\ plain.outcome = res.outcome
           /\ plain.call = res.call
           /\ plain.exact = res.exact
           /\ plain.value = res.value

\* C4: the plain branch of Cutoff_powerlaw.evaluate and
\* Inverse_cutoff_powerlaw.evaluate returns, without an error and with no unit,
\* the kernel's result on exactly the supplied K, piv, index and xc (or b).
C4_CutoffPlainBranchReturns ==
    (Evaluated({ "Cutoff_powerlaw", "Inverse_cutoff_powerlaw" }) /\ res.mode = "plain")
    => /\ res.outcome = "returned"
       /\ res.unit = None
       /\ res.call.p = << res.args["K"],
                          IF cls = "Cutoff_powerlaw" THEN res.args["xc"] ELSE res.args["b"],
                          res.args["index"], res.args["piv"] >>

\* C5: for index # -1 and a < b, Powerlaw_flux.evaluate completes without an
\* error and returns F (index+1) / (b^(index+1) - a^(index+1)) x^index.
C5_PowerlawFluxReturnsNormalised ==
    (Evaluated({ "Powerlaw_flux" }) /\ res.args["index"] # I(-1)
       /\ RLt(res.args["a"], res.args["b"]))
    => /\ res.outcome = "returned"
       /\ LET index == res.args["index"]
              gp1 == RAdd(index, I(1))
              norm == RDiv(RMul(res.args["F"], gp1),
                           RSub(RPow(res.args["b"], gp1[1]), RPow(res.args["a"], gp1[1])))
          IN  (RIsInt(index) /\ AllPositive(res.x))
              => (res.exact /\ res.value = [i \in 1..Len(res.x) |->
                                              V(RMul(norm, RPow(res.x[i], index[1])), I(0))])

\* C6: Band_Calderone.evaluate with opt = 1 and Esplit = (alpha - beta) Ec
\* above the band limit b fails with a domain violation, the error kind of the
\* alpha < beta check.
C6_EsplitAboveBandRaisesViolation ==
    (Evaluated({ "Band_Calderone" }) /\ res.args["opt"] = I(1)
       /\ ~RLt(res.args["alpha"], res.args["beta"]) /\ ~RLt(res.args["alpha"], I(-2))
       /\ LET alpha == res.args["alpha"]
              Ec == IF alpha = I(-2) THEN RDiv(res.args["xp"], R(1, 10000))
                    ELSE RDiv(res.args["xp"], RAdd(I(2), alpha))
              Esplit == RMul(RSub(alpha, res.args["beta"]), Ec)
          IN  RLt(res.args["b"], Esplit))
    => res.outcome \in DomainViolation

\* C7: the array evaluate returns has the shape of x (of x broadcast with y
\* for the 2-D kernels), for every kernel.
C7_ResultHasShapeOfInput ==
    (Evaluated(Classes) /\ res.outcome = "returned")
    => res.shape = << IF cls \in Classes2D THEN BroadcastLen(res.x, res.y)
                      ELSE Len(res.x) >>

\* C8: the quantity branch of Powerlaw, Powerlaw_flux, Cutoff_powerlaw,
\* Inverse_cutoff_powerlaw, Broken_powerlaw and Band returns an array that
\* carries exactly the y_unit of the instance.
C8_UnitBranchAttachesYUnit ==
    (Evaluated({ "Powerlaw", "Powerlaw_flux", "Cutoff_powerlaw",
                 "Inverse_cutoff_powerlaw", "Broken_powerlaw", "Band" })
       /\ res.mode = "units"
       /\ (cls = "Band" => ~RLt(res.args["alpha"], res.args["beta"])))
    => (res.outcome = "returned" /\ res.unit = axes[2])

\* C9: once set_units has succeeded, every declared parameter has a unit
\* that is not None, and keeps one through later value changes, evaluate calls
\* and set_units calls.
C9_UnitsNeverNoneAfterSetUnits ==
    unitsSet => \A p \in ParamNames(cls) : punit[p] # None

\* C10: the hooks of Synchrotron and EBLattenuation raise
\* InvalidUsageForFunction naming x when x_unit is no energy, and naming y when
\* x_unit is an energy and y_unit is not of the required kind (differential
\* flux, dimensionless); a hook that raises has assigned no parameter unit.
C10_HookValidatesXThenY ==
    (res.op = "set_units" /\ cls \in { "Synchrotron", "EBLattenuation" })
    => LET x_energy == IsUnit(axes[1]) /\ physical_type(axes[1]) = "energy"
           y_kind == IF cls = "Synchrotron" THEN axes[2] = DiffFlux
                     ELSE IsUnit(axes[2]) /\ physical_type(axes[2]) = "dimensionless"
           raised == res.outcome = "InvalidUsageForFunction"
       IN  /\ ~x_energy => (raised /\ res.axis = "x")
           /\ (x_energy /\ ~y_kind) => (raised /\ res.axis = "y")
           /\ (x_energy /\ y_kind) => res.outcome = "returned"
           /\ raised => res.assigned = {}
           /\ (raised /\ ~unitsSet) => \A p \in ParamNames(cls) : punit[p] = Param(cls, p).unit

\* C10 witness: EBLattenuation's hook accepted x_unit as an energy and
\* refused y_unit.
C10_Witness ==
    /\ res.op = "set_units"
    /\ cls = "EBLattenuation"
    /\ physical_type(axes[1]) = "energy"
    /\ res.outcome = "InvalidUsageForFunction"
    /\ res.axis = "y"

\* the package whose flag guards class c is missing
NeedsMissing(c) == \E pkg \in missing : Flag(pkg) = GuardOf(c)

\* C11: after the module is loaded with packages missing, there is one
\* warning per missing package, a kernel that needs none of them is
\* constructible, and constructing a kernel that needs a missing package
\* fails with the dedicated DependencyUnavailable error.
C11_MissingPackageGivesDedicatedError ==
    /\ loaded => Len(warned) = Cardinality(missing)
    /\ res.op = "construct" =>
          IF NeedsMissing(res.call.fn)
          THEN res.outcome = "DependencyUnavailable"
          ELSE res.outcome = "returned" /\ cls = res.call.fn

\* C12: an evaluate call, whether it returns or raises, changes no parameter
\* value, no parameter unit and no other attribute of the instance.
C12_EvaluateChangesNoAttribute ==
    [][res'.op = "evaluate" =>
          /\ val' = val /\ punit' = punit /\ axes' = axes
          /\ particle' = particle /\ tmpl' = tmpl /\ focal' = focal]_vars

\* the rectangle the last get_boundaries returned
LonRange == res.value[1]
LatRange == res.value[2]
InHalfOpenCircle(a) == RLe(I(0), a) /\ RLt(a, I(360))

\* C13: with the declared bounds in place, get_boundaries of Gaussian_on_sphere,
\* Disk_on_sphere and Ellipse_on_sphere returns both longitudes in the
\* half-open range [0, 360), whatever the centre.
C13_LongitudesInHalfOpenRange ==
    (/\ res.op = "get_boundaries"
     /\ cls \in { "Gaussian_on_sphere", "Disk_on_sphere", "Ellipse_on_sphere" }
     /\ ~widened)
    => /\ res.outcome = "returned"
       /\ InHalfOpenCircle(LonRange[1])
       /\ InHalfOpenCircle(LonRange[2])

\* C14: Power_law_on_sphere.get_boundaries returns longitudes in [0, 360) and
\* latitudes in [-90, 90].
C14_PowerLawRectangleIsValid ==
    (res.op = "get_boundaries" /\ cls = "Power_law_on_sphere")
    => /\ res.outcome = "returned"
       /\ InHalfOpenCircle(LonRange[1])
       /\ InHalfOpenCircle(LonRange[2])
       /\ RLe(I(-90), LatRange[1])
       /\ RLe(LatRange[2], I(90))

\* C15: once load_file has run, SpatialTemplate_2D.evaluate on coordinate
\* arrays of equal length raises no error and returns one value per
\* coordinate, whatever NAXIS1 and NAXIS2 are.
C15_TemplateEvaluateNeverRaises ==
    (/\ res.op = "evaluate"
     /\ cls = "SpatialTemplate_2D"
     /\ tmpl.loaded
     /\ Len(res.x) = Len(res.y))
    => /\ res.outcome = "returned"
       /\ Len(res.value) = Len(res.x)

\* the names of the declared parameters of class c, in declaration order
DeclaredOrder(c) == [i \in 1..Len(Parameters(c)) |-> Parameters(c)[i].name]

\* C16: the parameter arguments evaluate receives are exactly the declared
\* parameters of the class, in declaration order.
C16_EvaluateTakesDeclaredParameters ==
    res.op = "evaluate"
    => /\ EvaluateSignature(cls) = DeclaredOrder(cls)
       /\ DOMAIN res.args = ParamNames(cls)

\* C17: StepFunction.evaluate returns value at every x with
\* lower_bound <= x <= upper_bound, both ends included, and zero at every other
\* x; with lower_bound 0, upper_bound 1 and value 1 it returns 1 at x = 1/2
\* and 0 at x = -1/2.
C17_StepFunctionIsClosedInterval ==
    (res.op = "evaluate" /\ cls = "StepFunction")
    => /\ res.outcome = "returned"
       /\ \A i \in 1..Len(res.x) :
            /\ res.value[i] =
                 IF RLe(res.args["lower_bound"], res.x[i])
                    /\ RLe(res.x[i], res.args["upper_bound"])
                 THEN V(res.args["value"], I(0)) ELSE VZero
            /\ (res.args = InitVal("StepFunction") /\ res.x[i] = R(1, 2))
                  => res.value[i] = <<1, 1, 0, 1>>
            /\ (res.args = InitVal("StepFunction") /\ res.x[i] = R(-1, 2))
                  => res.value[i] = <<0, 1, 0, 1>>

\* C17 witness: the default StepFunction evaluated on -1/2 and 1/2 returned
\* 0 and 1
C17_Witness ==
    /\ res.op = "evaluate" /\ cls = "StepFunction"
    /\ res.args = InitVal("StepFunction")
    /\ res.x = << R(-1, 2), R(1, 2) >>
    /\ res.value = << <<0, 1, 0, 1>>, <<1, 1, 0, 1>> >>

MaskedKernels ==
    { "StepFunction", "StepFunctionUpper", "DiracDelta", "Blackbody", "Band_grbm",
      "Band_Calderone" }

C20_PowerlawPlainValue ==
    (res.op = "evaluate" /\ cls = "Powerlaw" /\ res.mode = "plain")
    => /\ res.outcome = "returned"
       /\ res.unit = None
       /\ res.exact =>
            \A i \in 1..Len(res.x) :
               res.value[i] =
                  V(RMul(res.args["K"],
                         RPow(RDiv(res.x[i], res.args["piv"]), res.args["index"][1])),
                    I(0))
       /\ res.args = InitVal("Powerlaw") =>
            /\ res.exact
            /\ \A i \in 1..Len(res.x) :
                 /\ res.x[i] = I(10) => res.value[i] = <<1, 100, 0, 1>>
                 /\ res.x[i] = I(100) => res.value[i] = <<1, 10000, 0, 1>>

\* C20 witness: the default Powerlaw evaluated on 10 and 100 returned 1/100
\* and 1/10000
C20_Witness ==
    /\ res.op = "evaluate" /\ cls = "Powerlaw" /\ res.mode = "plain"
    /\ res.args = [K |-> I(1), piv |-> I(1), index |-> I(-2)]
    /\ res.x = << I(10), I(100) >>
    /\ res.value = << <<1, 100, 0, 1>>, <<1, 10000, 0, 1>> >>

\* M and break_scale of the last SmoothlyBrokenPowerLaw.evaluate
SbplM == RDiv(RSub(res.args["beta"], res.args["alpha"]), I(2))
SbplScale == res.args["break_scale"]

\* C21: at a sample on a branch threshold of SmoothlyBrokenPowerLaw.evaluate
\* (arg = -6 or arg = 4) the asymptotic branch and the exact log-cosh branch
\* give results within 10^-6 relative of each other, that is exponents of ten
\* within 5 * 10^-7 of each other.
C21_SmoothBranchesMeetAtThresholds ==
    (res.op = "evaluate" /\ cls = "SmoothlyBrokenPowerLaw" /\ res.outcome = "returned")
    => \A i \in 1..Len(res.x) :
         /\ res.value[i].arg = I(4) =>
              RLe(RAbs(RSub(pcosh_exact(SbplM, SbplScale, I(4)),
                            pcosh_above(SbplM, SbplScale, I(4)))), I(5))
         /\ res.value[i].arg = I(-6) =>
              RLe(RAbs(RSub(pcosh_exact(SbplM, SbplScale, I(-6)),
                            pcosh_below(SbplM, SbplScale, I(-6)))), I(5))

\* C23: SmoothlyBrokenPowerLaw.evaluate puts each sample in exactly one of
\* three masks by its arg: arg < -6 is written by the lower asymptotic
\* formula, arg > 4 by the upper one, -6 <= arg <= 4 by the exact form, and
\* the pivot term is chosen by the same thresholds.
C23_SmoothMasksPartitionSamples ==
    (res.op = "evaluate" /\ cls = "SmoothlyBrokenPowerLaw" /\ res.outcome = "returned")
    => /\ Len(res.value) = Len(res.x)
       /\ \A i \in 1..Len(res.x) :
            LET s == res.value[i]
            IN /\ s.mask \in { "idx1", "idx2", "idx3" }
               /\ s.mask = "idx1" <=> RLt(s.arg, I(-6))
               /\ s.mask = "idx2" <=> RLt(I(4), s.arg)
               /\ s.mask = "idx3" <=> (RLe(I(-6), s.arg) /\ RLe(s.arg, I(4)))
               /\ s.mask = "idx1" => s.pcosh = pcosh_below(SbplM, SbplScale, s.arg)
               /\ s.mask = "idx2" => s.pcosh = pcosh_above(SbplM, SbplScale, s.arg)
               /\ s.mask = "idx3" => s.pcosh = pcosh_exact(SbplM, SbplScale, s.arg)
               /\ s.piv_case = "idx1" <=> RLt(s.arg_piv, I(-6))
               /\ s.piv_case = "idx2" <=> RLt(I(4), s.arg_piv)
               /\ s.piv_case = "idx3" => s.pcosh_piv = pcosh_exact(SbplM, SbplScale, s.arg_piv)

\* C23 witness: two samples, one on the threshold arg = 4 written by the exact
\* form and one above it written by the upper asymptotic formula
C23_Witness ==
    /\ res.op = "evaluate" /\ cls = "SmoothlyBrokenPowerLaw"
    /\ res.outcome = "returned"
    /\ Len(res.x) = 2
    /\ res.value[1].arg = I(4) /\ res.value[1].mask = "idx3"
    /\ res.value[2].arg = I(6) /\ res.value[2].mask = "idx2"

\* C22: every call of Band_Calderone.evaluate that passes the domain checks
\* (opt is 0 or 1, alpha >= beta, alpha >= -2) returns, with the band integral
\* chosen by cases: opt = 0 the cutoff-power-law integral over [a, b];
\* opt = 1 and a <= Esplit <= b the cutoff-power-law integral over [a, Esplit]
\* plus the power-law integral over [Esplit, b]; opt = 1 and Esplit < a the
\* power-law integral over [a, b].
C22_BandIntegralCasesCoverDomain ==
    (/\ res.op = "evaluate"
     /\ cls = "Band_Calderone"
     /\ res.outcome \notin { "AssertionError", "ModelAssertionViolation" })
    => /\ res.outcome = "returned"
       /\ res.call.fn \in { "ggrb_int_cpl", "ggrb_int_cpl+ggrb_int_pl", "ggrb_int_pl" }
       /\ res.call.fn = "ggrb_int_cpl" <=> res.args["opt"] = I(0)

\* C24: Blackbody.evaluate returns zero at every sample with x / kT > 700 and
\* K x^2 / (exp(x / kT) - 1) at every sample with x / kT <= 700, the threshold
\* included; the exponential is taken only of the arguments at or below 700.
C24_BlackbodyMaskAtThreshold ==
    (res.op = "evaluate" /\ cls = "Blackbody")
    => /\ res.outcome = "returned"
       /\ Len(res.value) = Len(res.x)
       /\ \A i \in 1..Len(res.x) :
            LET arg == RDiv(res.x[i], res.args["kT"])
            IN  IF RLt(I(700), arg)
                THEN res.value[i] = VZero
                ELSE res.value[i] = blackbody_sample(res.args["K"], res.x[i], arg)

\* C24 witness: with kT = 1/100 the sample x = 7 (x / kT = 700) was computed
\* and the sample x = 10 (x / kT = 1000) returned zero
C24_Witness ==
    /\ res.op = "evaluate" /\ cls = "Blackbody" /\ res.outcome = "returned"
    /\ res.args["kT"] = R(1, 100)
    /\ res.x = << I(7), I(10) >>
    /\ res.value[1] = blackbody_sample(res.args["K"], I(7), I(700))
    /\ res.value[2] = VZero

Truncated == { "Gaussian_on_sphere", "Disk_on_sphere", "Ellipse_on_sphere" }
ShapeParameter ==
    CASE cls = "Gaussian_on_sphere" -> "sigma"
      [] cls = "Disk_on_sphere" -> "radius"
      [] cls = "Ellipse_on_sphere" -> "a"

\* the instance with the centre it has and every other parameter as declared
CentreOnly ==
    [Self EXCEPT !.val = [p \in ParamNames(cls) |->
                            IF p \in { "lon0", "lat0" } THEN val[p] ELSE InitVal(cls)[p]]]

\* C25: with the declared bounds in place, get_boundaries of Gaussian_on_sphere,
\* Disk_on_sphere and Ellipse_on_sphere changes no state and returns the
\* rectangle of the centre alone, whatever the current values of the other
\* parameters; its latitudes are lat0 -/+ 2 * max clipped to [-90, 90].
C25_BoundariesDependOnCentreAndMax ==
    [][(res'.op = "get_boundaries" /\ cls \in Truncated /\ ~widened)
       => /\ UNCHANGED <<cls, val, widened, punit, axes, unitsSet, particle, tmpl, focal>>
          /\ res'.outcome = "returned"
          /\ res'.value = GetBoundariesOf(cls, CentreOnly).value
          /\ LET two_max == I(2 * Param(cls, ShapeParameter).max[2])
             IN res'.value[2] = << RMax2(I(-90), RSub(val["lat0"], two_max)),
                                   RMin2(I(90), RAdd(val["lat0"], two_max)) >>]_vars

\* C25 witness: get_boundaries returned a rectangle clipped at the pole after
\* the current value of the shape parameter was changed
C25_Witness ==
    /\ res.op = "get_boundaries" /\ cls \in Truncated /\ ~widened
    /\ val[ShapeParameter] # InitVal(cls)[ShapeParameter]
    /\ val["lat0"] = I(80)
    /\ res.value[2] = << I(40), I(90) >>

PivotKernels ==
    { "Powerlaw_lognorm", "Powerlaw", "Powerlaw_flux", "Cutoff_powerlaw",
      "Inverse_cutoff_powerlaw", "Super_cutoff_powerlaw", "SmoothlyBrokenPowerLaw",
      "Broken_powerlaw", "Band", "Band_grbm", "Log_parabola" }
PivotOf(c) == IF c = "SmoothlyBrokenPowerLaw" THEN "pivot" ELSE "piv"

\* C26: after set_units(x_unit, y_unit) has gone through on a 1-D kernel that
\* declares a pivot, the pivot carries x_unit, and so do the band limits a
\* and b where the kernel has them.
C26_PivotCarriesXUnit ==
    (res.op = "set_units" /\ res.outcome = "returned" /\ cls \in PivotKernels)
    => /\ punit[PivotOf(cls)] = axes[1]
       /\ cls = "Powerlaw_flux" => (punit["a"] = axes[1] /\ punit["b"] = axes[1])

\* C27: whenever Band or Band_grbm is evaluated with alpha and beta inside
\* their declared bounds, alpha is greater than beta and evaluate does not
\* raise ModelAssertionViolation.
C27_InBoundsBandNeverViolates ==
    (/\ res.op = "evaluate"
     /\ cls \in { "Band", "Band_grbm" }
     /\ InDeclaredBounds(cls, "alpha", res.args["alpha"])
     /\ InDeclaredBounds(cls, "beta", res.args["beta"]))
    => /\ RLt(res.args["beta"], res.args["alpha"])
       /\ res.outcome # "ModelAssertionViolation"

\* C27 witness: Band evaluated after in-bounds changes of alpha and beta
C27_Witness ==
    /\ res.op = "evaluate" /\ cls = "Band" /\ ~widened
    /\ res.args["alpha"] = I(0) /\ res.args["beta"] = I(-3)
    /\ res.outcome = "returned"

\* a < b for two longitudes, compared by numerators when they share the
\* denominator
Before(a, b) == IF a[2] = b[2] THEN a[1] < b[1] ELSE RLt(a, b)

\* C28: in the branch of get_boundaries of Gaussian_on_sphere, Disk_on_sphere
\* and Ellipse_on_sphere where the half-width is below 180, the returned
\* longitudes lie between 0 and 360; either no shift was applied (the pair is
\* centred on lon0) and min_lon <= max_lon, or exactly one of them was shifted
\* by 360 and min_lon > max_lon.
C28_ShiftAppliedWhenNeeded ==
    (/\ res.op = "get_boundaries"
     /\ cls \in Truncated
     /\ res.outcome = "returned"
     /\ LonRange # <<I(0), I(360)>>)
    => LET below == RSub(val["lon0"], LonRange[1])
           above == RSub(LonRange[2], val["lon0"])
       IN /\ RLe(I(0), LonRange[1]) /\ RLe(LonRange[1], I(360))
          /\ RLe(I(0), LonRange[2]) /\ RLe(LonRange[2], I(360))
          /\ \/ below = above /\ ~Before(LonRange[2], LonRange[1])
             \/ /\ below \in { RAdd(above, I(360)), RSub(above, I(360)) }
                /\ Before(LonRange[2], LonRange[1])

\* C28 witness: at lon0 = 350 the upper longitude was shifted and the pair
\* wraps through 0
C28_Witness ==
    /\ res.op = "get_boundaries" /\ cls \in Truncated /\ res.outcome = "returned"
    /\ val["lon0"] = I(350)
    /\ RSub(val["lon0"], LonRange[1]) = RAdd(RSub(LonRange[2], val["lon0"]), I(360))
    /\ Before(LonRange[2], LonRange[1])

\* the dataset fields a header gives
FieldsOf(hdr) ==
    [loaded |-> TRUE, refXpix |-> hdr.CRPIX1, refYpix |-> hdr.CRPIX2,
     delXpix |-> hdr.CDELT1, delYpix |-> hdr.CDELT2, refX |-> hdr.CRVAL1,
     refY |-> hdr.CRVAL2, nX |-> hdr.NAXIS1, nY |-> hdr.NAXIS2]

C30_SynchrotronNeedsParticleDistribution ==
    [][cls = "Synchrotron"
       => /\ res'.op \in { "evaluate", "get_particle_distribution" }
               => /\ particle' = particle
                  /\ particle.cur = "none" => res'.outcome = "AttributeError"
                  /\ res'.outcome = "returned" => particle.cur # "none"
          /\ (res'.op = "get_particle_distribution" /\ particle.cur # "none")
               => res'.outcome = "returned" /\ res'.value = particle.cur
          /\ res'.op = "set_particle_distribution"
               => \E f \in Handles :
                     /\ particle'.cur = f
                     /\ particle'.units[f] =
                           <<current_units_energy, UPow(current_units_energy, -1)>>
                     /\ \A g \in Handles \ { f } : particle'.units[g] = particle.units[g]
          /\ res'.op # "set_particle_distribution"
               => particle'.units = particle.units]_vars

\* C30 witness: after f1 and then f2 were set, get_particle_distribution
\* returned f2
C30_Witness ==
    /\ cls = "Synchrotron" /\ res.op = "get_particle_distribution"
    /\ res.outcome = "returned" /\ res.value = "f2"
    /\ particle.cur = "f2"
    /\ particle.units["f1"][1] = current_units_energy

====
